---- MODULE Spec2Model ----
(***************************************************************************)
(* Model of the IPFS user-mapping proxy: the content table of package db   *)
(* and the four HTTP handlers of package proxy (add, dag/import, pin/ls,   *)
(* pin/rm).  Each handler invocation is one step; the observable outcome   *)
(* of the latest invocation (request, response, backend calls, store       *)
(* calls, and the table as it was before) is kept in the state so that     *)
(* properties can refer to it.                                             *)
(***************************************************************************)
EXTENDS Integers, Sequences, FiniteSets, TLC

VARIABLES
    store,   \* rows of the content table (db.DB)
    prev,    \* the rows as they were before the latest request
    now,     \* the database clock, NOW(); one tick per request
    req,     \* the latest request handled
    resp,    \* status, body and returned error of the latest request
    calls,   \* backend requests issued while handling the latest request
    dbLog,   \* store operations performed while handling the latest request
    held,    \* per identity, the ids uploaded and not removed since (history)
    pinned,  \* the content ids pinned at the backend
    inflight, \* per goroutine, the request it is handling and how far it got
    rww      \* a ResponseWriterWrapper, the writer it wraps and the calls made on it

vars == <<store, prev, now, req, resp, calls, dbLog, held, pinned, inflight, rww>>

---------------------------------------------------------------------------
(* Bounds of the model. *)

MaxClock == 2      \* number of requests in a run
MaxArgs == 2       \* number of arg values in a pin/rm request
MaxResults == 2    \* number of results in a backend answer to one upload
MaxMessages == 3   \* number of messages in a backend answer to one import
MaxWrites == 3     \* number of calls made on one response writer wrapper

Users == {"john", "shawn"}
Hashes == {"pin-hash-1", "pin-hash-2"}

(* net/http status codes used by the handlers. *)
StatusOK == 200
StatusBadRequest == 400
StatusUnauthorized == 401
StatusForbidden == 403
StatusNotFound == 404
StatusInternalServerError == 500
StatusBadGateway == 502

(* A NULL column / nil pointer is the empty tuple, a value v is <<v>>. *)
NULL == <<>>

---------------------------------------------------------------------------
(* Helpers for sequences and sets. *)

Range(s) == {s[i] : i \in DOMAIN s}

SeqsUpTo(S, n) == UNION {[1..k -> S] : k \in 0..n}

sliceToSet(slice) == Range(slice)

(* Go iterates a map in an unspecified order: every ordering of the set. *)
setToSlice(set) ==
    {s \in [1..Cardinality(set) -> set] : Range(s) = set}

---------------------------------------------------------------------------
(* Package db: the content table. *)

Key(r) == <<r.username, r.hash>>

Row(content, t) ==
    [username |-> content.User, hash |-> content.Hash, name |-> content.Name,
     size |-> content.Size, created |-> t, removed |-> NULL]

Content(user, hash, name, size) ==
    [User |-> user, Hash |-> hash, Name |-> name, Size |-> size]

UserHashPair(r) == [User |-> r.username, Hash |-> r.hash]

(* Faulty variants of db.Add: no conflict clause at all, the conflict      *)
(* clause of the earlier schema (DO NOTHING), and one that also rewrites   *)
(* the creation time.                                                      *)
Add_NoConflictClause(rows, content, t) ==
    rows \cup {Row(content, t)}

Add_DoNothing(rows, content, t) ==
    IF \E r \in rows : Key(r) = <<content.User, content.Hash>>
    THEN rows
    ELSE rows \cup {Row(content, t)}

Add_ResetCreated(rows, content, t) ==
    IF \E r \in rows : Key(r) = <<content.User, content.Hash>>
    THEN {IF Key(r) = <<content.User, content.Hash>>
          THEN [r EXCEPT !.removed = NULL, !.created = t] ELSE r : r \in rows}
    ELSE rows \cup {Row(content, t)}

(* Variant whose conflict clause also overwrites name and size. *)
Add_RefreshNameSize(rows, content, t) ==
    IF \E r \in rows : Key(r) = <<content.User, content.Hash>>
    THEN {IF Key(r) = <<content.User, content.Hash>>
          THEN [r EXCEPT !.removed = NULL, !.name = content.Name, !.size = content.Size]
          ELSE r : r \in rows}
    ELSE rows \cup {Row(content, t)}

(* Faulty variant: the conflict target of the first schema, where hash    *)
(* alone was unique, so that an id held by anyone is never inserted again.  *)
Add_ConflictOnHash(rows, content, t) ==
    IF \E r \in rows : r.hash = content.Hash
    THEN {IF r.hash = content.Hash
          THEN [r EXCEPT !.removed = NULL] ELSE r : r \in rows}
    ELSE rows \cup {Row(content, t)}

(* INSERT ... ON CONFLICT (username, hash) DO UPDATE SET removed = NULL *)
Add(rows, content, t) ==
    IF \E r \in rows : Key(r) = <<content.User, content.Hash>>
    THEN {IF Key(r) = <<content.User, content.Hash>>
          THEN [r EXCEPT !.removed = NULL] ELSE r : r \in rows}
    ELSE rows \cup {Row(content, t)}

(* Faulty variant: the query without its "removed IS NULL" condition. *)
ListActiveContentByHash_IncludingRemoved(rows, hashes) ==
    {UserHashPair(r) : r \in {x \in rows : x.hash \in Range(hashes)}}

(* SELECT username, hash WHERE hash = ANY($1) AND removed IS NULL *)
ListActiveContentByHash(rows, hashes) ==
    {UserHashPair(r) : r \in {x \in rows : x.hash \in Range(hashes) /\ x.removed = NULL}}

(* Faulty variant: the query without its "removed IS NULL" condition. *)
ListActiveContentByUser_IncludingRemoved(rows, user) ==
    {r.hash : r \in {x \in rows : x.username = user}}

(* SELECT hash WHERE username = $1 AND removed IS NULL *)
ListActiveContentByUser(rows, user) ==
    {r.hash : r \in {x \in rows : x.username = user /\ x.removed = NULL}}

(* Faulty variant: the update without its "username = $1" condition. *)
RemoveContentByHashForUser_AnyUser(rows, user, hashes, t) ==
    {IF r.hash \in Range(hashes) /\ r.removed = NULL
     THEN [r EXCEPT !.removed = <<t>>] ELSE r : r \in rows}

(* Faulty variant: the rows are deleted instead of marked. *)
RemoveContentByHashForUser_Delete(rows, user, hashes, t) ==
    {r \in rows : ~(r.username = user /\ r.hash \in Range(hashes) /\ r.removed = NULL)}

(* Faulty variant: the update without its "removed IS NULL" condition. *)
RemoveContentByHashForUser_Restamp(rows, user, hashes, t) ==
    {IF r.username = user /\ r.hash \in Range(hashes)
     THEN [r EXCEPT !.removed = <<t>>] ELSE r : r \in rows}

(* UPDATE content SET removed = NOW()                                      *)
(* WHERE username = $1 AND hash = ANY($2) AND removed IS NULL              *)
RemoveContentByHashForUser(rows, user, hashes, t) ==
    {IF r.username = user /\ r.hash \in Range(hashes) /\ r.removed = NULL
     THEN [r EXCEPT !.removed = <<t>>] ELSE r : r \in rows}

---------------------------------------------------------------------------
(* Requests. *)

(* Faulty variant: credentials count only with the expected password. *)
BasicAuth_CheckPassword(r) ==
    [r.auth EXCEPT !.ok = r.auth.ok /\ r.auth.password = "somepassword"]

(* r.BasicAuth(): user name, password, and whether credentials were        *)
(* present.  The handlers bind "user, _, ok" and never read the password.   *)
BasicAuth(r) == r.auth

Passwords == {"somepassword", "another"}

Credentials(passwords) ==
    {[ok |-> TRUE, user |-> u, password |-> pw] : u \in Users, pw \in passwords}
    \cup {[ok |-> FALSE, user |-> "", password |-> ""]}

(* The credentials of the handler tests: SetBasicAuth(user, "somepassword"). *)
Auths == Credentials({"somepassword"})

(* url.Values: a map from parameter names to their values. *)
Has(q, p) == p \in DOMAIN q

Get(q, p) == IF Has(q, p) /\ Len(q[p]) > 0 THEN q[p][1] ELSE ""

NoQuery == [p \in {} |-> <<>>]

Request(op, auth, query) == [op |-> op, auth |-> auth, query |-> query]

(* Response bodies. *)
ErrorBody(msg) == [error |-> msg]

Response(status, body, err) == [status |-> status, body |-> body, err |-> err]

(* The streaming JSON decoder over a backend response body.  A body is a   *)
(* sequence of JSON values; a value that does not decode is Malformed.     *)

Malformed == [malformed |-> TRUE]

IsMalformed(item) == "malformed" \in DOMAIN item

(* Index of the first value that fails to decode, 0 when all decode. *)
FirstMalformed(body) ==
    IF \E i \in DOMAIN body : IsMalformed(body[i])
    THEN CHOOSE i \in DOMAIN body :
           IsMalformed(body[i]) /\ \A j \in 1..(i - 1) : ~IsMalformed(body[j])
    ELSE 0

(* Faulty variant: a decode error ends the loop like the end of input,    *)
(* keeping what was decoded before it.                                      *)
decode_ErrorAsEOF(body) ==
    [err |-> FALSE,
     messages |-> IF FirstMalformed(body) = 0 THEN body
                  ELSE SubSeq(body, 1, FirstMalformed(body) - 1)]

(* The decode loop: decoder.Decode until io.EOF; any other error aborts.   *)
decode(body) ==
    [err |-> FirstMalformed(body) # 0,
     messages |-> IF FirstMalformed(body) = 0 THEN body
                  ELSE SubSeq(body, 1, FirstMalformed(body) - 1)]

(* The backend's pins.  A successful upload pins the root of what was      *)
(* added, which is the last result of the answer; a successful import pins  *)
(* every root it reports without a pin error; a successful pin/rm unpins    *)
(* the ids it names.                                                        *)
AddedRoots(call) ==
    LET messages == decode(call.answer.body).messages
    IN
    IF call.endpoint = "/api/v0/add"
    THEN IF messages = <<>> THEN {} ELSE {messages[Len(messages)].Hash}
    ELSE {m.Root[1].Cid["/"] :
            m \in {x \in Range(messages) :
                     /\ x.Root # NULL
                     /\ "/" \in DOMAIN x.Root[1].Cid
                     /\ x.Root[1].PinErrorMsg = ""}}

RECURSIVE pinsAfter(_, _)
pinsAfter(pins, backendCalls) ==
    IF backendCalls = <<>> THEN pins
    ELSE LET call == Head(backendCalls)
         IN pinsAfter(IF call.endpoint = "/api/v0/pin/rm"
                      THEN IF call.answer.reached /\ call.answer.code = StatusOK
                           THEN pins \ Range(call.query["arg"]) ELSE pins
                      ELSE IF call.answer.code = StatusOK
                      THEN pins \cup AddedRoots(call) ELSE pins,
                      Tail(backendCalls))

(* A store operation as seen by the handler. *)
DBCall(op, arg, ok) == [op |-> op, arg |-> arg, ok |-> ok]

(* The ids an identity has uploaded and not removed since, after the      *)
(* store operations of one of its requests: a committed upsert adds the    *)
(* id, a committed removal takes the named ids away, a failed operation    *)
(* changes nothing.                                                        *)
RECURSIVE heldAfter(_, _)
heldAfter(ids, dbCalls) ==
    IF dbCalls = <<>> THEN ids
    ELSE LET c == Head(dbCalls)
         IN heldAfter(IF ~c.ok THEN ids
                      ELSE IF c.op = "Add" THEN ids \cup {c.arg.Hash}
                      ELSE IF c.op = "RemoveContentByHashForUser"
                      THEN ids \ Range(c.arg[2])
                      ELSE ids,
                      Tail(dbCalls))

(* One handler invocation completes: everything is recorded at once. *)
Done(r, response, backendCalls, dbCalls, rows) ==
    /\ held' = IF BasicAuth(r).ok
               THEN [held EXCEPT ![BasicAuth(r).user] = heldAfter(@, dbCalls)]
               ELSE held
    /\ now' = now + 1
    /\ req' = r
    /\ resp' = response
    /\ calls' = backendCalls
    /\ dbLog' = dbCalls
    /\ prev' = store
    /\ store' = rows
    /\ pinned' = pinsAfter(pinned, backendCalls)
    /\ UNCHANGED <<inflight, rww>>

---------------------------------------------------------------------------
(* /api/v0/pin/rm *)

PinRmResponseMessage(pins) == [Pins |-> pins]

(* Faulty variant: the ids are written from the set built for the        *)
(* reconciliation, which has lost their order and their repetitions.       *)
writeResponse_FromSet(pins) ==
    Response(StatusOK,
             PinRmResponseMessage(CHOOSE s \in setToSlice(sliceToSet(pins)) : TRUE), "")

writeResponse(pins) == Response(StatusOK, PinRmResponseMessage(pins), "")

(* What the backend does with a pin/rm call: unreachable, or a status. *)
PinRmBackend ==
    {[reached |-> FALSE, code |-> 0, body |-> ""],
     [reached |-> TRUE, code |-> StatusOK, body |-> "backend pins"],
     [reached |-> TRUE, code |-> StatusInternalServerError, body |-> "backend error"]}

(* A request sent to the backend, with what came back. *)
BackendCall(endpoint, query, answer) ==
    [endpoint |-> endpoint, query |-> query, answer |-> answer]

PinRmQueries ==
    {NoQuery} \cup
    {("arg" :> a) : a \in SeqsUpTo(Hashes, MaxArgs) \ {<<>>}} \cup
    {("recursive" :> <<"">>)} \cup
    {("arg" :> a) @@ ("recursive" :> <<"">>) : a \in SeqsUpTo(Hashes, 1) \ {<<>>}}

(* Faulty variants: an unreachable backend surfaced as an error, and a    *)
(* backend failure answered with a success of the proxy's own.             *)
pinRmResponse_SurfaceUnreachable(b, toRemove) ==
    IF ~b.reached THEN Response(StatusBadGateway, ErrorBody("backend"), "backend")
    ELSE IF b.code # StatusOK THEN Response(b.code, b.body, "")
    ELSE writeResponse(toRemove)

pinRmResponse_AlwaysSuccess(b, toRemove) ==
    writeResponse(toRemove)

(* The response of handlePinRm once the backend call has been attempted. *)
pinRmResponse(b, toRemove) ==
    IF ~b.reached THEN writeResponse(toRemove)
    ELSE IF b.code # StatusOK THEN Response(b.code, b.body, "")
    ELSE writeResponse(toRemove)

(* Faulty variants of the reconciliation loop: shared ids stay in         *)
(* backendArgs, and any identity's record clears an id from checkArgs.     *)
backendArgsOf_KeepShared(user, toRemove, userHashes) ==
    sliceToSet(toRemove)

checkArgsOf_AnyOwner(user, toRemove, userHashes) ==
    sliceToSet(toRemove) \ {uh.Hash : uh \in userHashes}

backendArgsOf(user, toRemove, userHashes) ==
    sliceToSet(toRemove) \ {uh.Hash : uh \in {x \in userHashes : x.User # user}}

checkArgsOf(user, toRemove, userHashes) ==
    sliceToSet(toRemove) \ {uh.Hash : uh \in {x \in userHashes : x.User = user}}

handlePinRm(r) ==
    LET user == BasicAuth(r).user
        toRemove == IF Has(r.query, "arg") THEN r.query["arg"] ELSE <<>>
        list(ok) == DBCall("ListActiveContentByHash", toRemove, ok)
        remove(ok) == DBCall("RemoveContentByHashForUser", <<user, toRemove>>, ok)
    IN
    IF ~BasicAuth(r).ok
    THEN Done(r, Response(StatusUnauthorized, ErrorBody("no basic auth"), "no basic auth"),
              <<>>, <<>>, store)
    ELSE IF \E param \in DOMAIN r.query : param # "arg"
    THEN Done(r, Response(StatusBadRequest, ErrorBody("only arg arguments are allowed"),
                          "only arg arguments are allowed"),
              <<>>, <<>>, store)
    ELSE IF Len(toRemove) = 0
    THEN Done(r, Response(StatusBadRequest, ErrorBody("argument ipfs-path is required"),
                          "argument ipfs-path is required"),
              <<>>, <<>>, store)
    ELSE
      \/ \* p.db.ListActiveContentByHash fails
         Done(r, Response(StatusInternalServerError, ErrorBody("db"), "db"),
              <<>>, <<list(FALSE)>>, store)
      \/ LET userHashes == ListActiveContentByHash(store, toRemove)
             backendArgs == backendArgsOf(user, toRemove, userHashes)
             checkArgs == checkArgsOf(user, toRemove, userHashes)
             removed == RemoveContentByHashForUser(store, user, toRemove, now)
         IN
         IF Cardinality(checkArgs) > 0
         THEN Done(r, Response(StatusNotFound,
                               [error |-> "not pinned or pinned indirectly", ids |-> checkArgs],
                               "not pinned or pinned indirectly"),
                   <<>>, <<list(TRUE)>>, store)
         ELSE
           \/ \* p.db.RemoveContentByHashForUser fails
              Done(r, Response(StatusInternalServerError, ErrorBody("db"), "db"),
                   <<>>, <<list(TRUE), remove(FALSE)>>, store)
           \/ IF Cardinality(backendArgs) = 0
              THEN Done(r, writeResponse(toRemove), <<>>, <<list(TRUE), remove(TRUE)>>, removed)
              ELSE \E args \in setToSlice(backendArgs), b \in PinRmBackend :
                     LET call == BackendCall("/api/v0/pin/rm", ("arg" :> args), b)
                     IN
                     Done(r, pinRmResponse(b, toRemove),
                          <<call>>, <<list(TRUE), remove(TRUE)>>, removed)

HandlePinRm ==
    /\ now < MaxClock
    /\ \E auth \in Auths, q \in PinRmQueries : handlePinRm(Request("pin/rm", auth, q))

---------------------------------------------------------------------------
(* /api/v0/pin/ls *)

PinLsResponseMessage(keys) == [Keys |-> keys]

PinLsQueries == {NoQuery, ("type" :> <<"recursive">>)}

(* Faulty variant: the request is also passed on to the backend, as the   *)
(* reverse proxy does for add and dag/import.                              *)
handlePinLs_Forwarding(r) ==
    LET user == BasicAuth(r).user
        hashes == ListActiveContentByUser(store, user)
        keys == [hash \in hashes |-> [Type |-> "recursive"]]
    IN
    IF ~BasicAuth(r).ok
    THEN Done(r, Response(StatusUnauthorized, ErrorBody("no basic auth"), "no basic auth"),
              <<>>, <<>>, store)
    ELSE Done(r, Response(StatusOK, PinLsResponseMessage(keys), ""),
              <<BackendCall("/api/v0/pin/ls", r.query, [code |-> StatusOK, body |-> <<>>])>>,
              <<DBCall("ListActiveContentByUser", user, TRUE)>>, store)

handlePinLs(r) ==
    LET user == BasicAuth(r).user
    IN
    IF ~BasicAuth(r).ok
    THEN Done(r, Response(StatusUnauthorized, ErrorBody("no basic auth"), "no basic auth"),
              <<>>, <<>>, store)
    ELSE IF \E param \in DOMAIN r.query : TRUE
    THEN Done(r, Response(StatusBadRequest, ErrorBody("no arguments are allowed"),
                          "no arguments are allowed"),
              <<>>, <<>>, store)
    ELSE
      \/ \* p.db.ListActiveContentByUser fails
         Done(r, Response(StatusInternalServerError, ErrorBody("db"), "db"),
              <<>>, <<DBCall("ListActiveContentByUser", user, FALSE)>>, store)
      \/ LET hashes == ListActiveContentByUser(store, user)
             keys == [hash \in hashes |-> [Type |-> "recursive"]]
         IN Done(r, Response(StatusOK, PinLsResponseMessage(keys), ""),
                 <<>>, <<DBCall("ListActiveContentByUser", user, TRUE)>>, store)

HandlePinLs ==
    /\ now < MaxClock
    /\ \E auth \in Auths, q \in PinLsQueries : handlePinLs(Request("pin/ls", auth, q))

---------------------------------------------------------------------------
(* strconv.ParseInt(s, 10, 64) over a string given as its characters. *)
Digits == <<"0", "1", "2", "3", "4", "5", "6", "7", "8", "9">>

IsDigit(ch) == \E d \in DOMAIN Digits : Digits[d] = ch

DigitValue(ch) == (CHOOSE d \in DOMAIN Digits : Digits[d] = ch) - 1

RECURSIVE ParseDigits(_, _)
ParseDigits(chars, acc) ==
    IF chars = <<>> THEN acc
    ELSE ParseDigits(Tail(chars), 10 * acc + DigitValue(Head(chars)))

ParseInt(chars) ==
    IF chars = <<>> \/ \E i \in DOMAIN chars : ~IsDigit(chars[i])
    THEN [ok |-> FALSE, value |-> 0]
    ELSE [ok |-> TRUE, value |-> ParseDigits(chars, 0)]

(* The reverse proxy relays the backend's answer; an unreachable backend   *)
(* is answered by the proxy's ErrorHandler with StatusBadGateway.          *)
BackendErrorCodes == {StatusBadRequest, StatusInternalServerError, StatusBadGateway}

BackendAnswer(code, body) == [code |-> code, body |-> body]

(* Faulty variant: a wrapper that holds the backend's answer back, so     *)
(* that an error of the handler can still be answered with a status.       *)
ResponseWriterWrapper_Buffering(b, err) ==
    IF err # "" /\ b.code = StatusOK
    THEN Response(StatusInternalServerError, ErrorBody(err), err)
    ELSE Response(b.code, b.body, err)

(* ResponseWriterWrapper copies status and body and passes both on to the  *)
(* caller as the reverse proxy writes them: by the time the handler looks   *)
(* at the copy, the caller has the backend's answer, whatever error the     *)
(* handler returns afterwards.                                              *)
ResponseWriterWrapper(b, err) == Response(b.code, b.body, err)

---------------------------------------------------------------------------
(* /api/v0/add *)

AddResponseMessage(name, hash, size) == [Name |-> name, Hash |-> hash, Size |-> size]

(* Answers of the backend to a forwarded add request: a file, another     *)
(* file, a file followed by its enclosing directory, and bodies that do    *)
(* not decode, decode to nothing or carry a size that is no number.        *)
firstFile == AddResponseMessage("first.jpg", "pin-hash-1", <<"1", "0", "2", "4">>)
secondFile == AddResponseMessage("second.jpg", "pin-hash-2", <<"2", "0", "4", "8">>)
directory == AddResponseMessage("photos", "pin-hash-2", <<"4", "0", "9", "6">>)
badSize == AddResponseMessage("first.jpg", "pin-hash-1", <<"1", "k">>)

AddBodies ==
    {<<>>, <<firstFile>>, <<secondFile>>, <<firstFile, directory>>,
     <<Malformed>>, <<firstFile, Malformed>>, <<badSize>>}

AddBackend ==
    {BackendAnswer(StatusOK, b) : b \in AddBodies} \cup
    {BackendAnswer(c, <<>>) : c \in BackendErrorCodes}

AddQueries ==
    {NoQuery, ("silent" :> <<"">>)} \cup
    {("wrap-with-directory" :> <<v>>) : v \in {"true", "false"}}

(* Variant: the flag is set unless it is explicitly "false". *)
WrapWithDirectory_DefaultTrue(r) ==
    IF ~Has(r.query, "wrap-with-directory") THEN TRUE
    ELSE IF Get(r.query, "wrap-with-directory") = "false" THEN FALSE
    ELSE TRUE

(* Faulty variant: the flag is never honoured. *)
WrapWithDirectory_Never(r) == FALSE

WrapWithDirectory(r) ==
    IF ~Has(r.query, "wrap-with-directory") THEN FALSE
    ELSE IF Get(r.query, "wrap-with-directory") = "false" THEN FALSE
    ELSE TRUE

handleAdd(r, backend) ==
    LET user == BasicAuth(r).user
    IN
    IF ~BasicAuth(r).ok
    THEN Done(r, Response(StatusUnauthorized, ErrorBody("no basic auth"), "no basic auth"),
              <<>>, <<>>, store)
    ELSE IF \E param \in DOMAIN r.query : param # "wrap-with-directory"
    THEN Done(r, Response(StatusForbidden,
                          ErrorBody("only wrap-with-directory argument is allowed"),
                          "only wrap-with-directory argument is allowed"),
              <<>>, <<>>, store)
    ELSE \E b \in backend :
      LET call == BackendCall("/api/v0/add", r.query, b)
          \* the wrapper has already relayed status and body to the caller
          relayed(err) == ResponseWriterWrapper(b, err)
          decoded == decode(b.body)
          messages == decoded.messages
          last == messages[Len(messages)]
          name == IF WrapWithDirectory(r) THEN messages[1].Name \o " (wrapped)"
                  ELSE last.Name
          hash == last.Hash
          size == ParseInt(last.Size)
          content == Content(user, hash, name, size.value)
      IN
      IF b.code # StatusOK
      THEN Done(r, relayed(""), <<call>>, <<>>, store)
      ELSE IF decoded.err
      THEN Done(r, relayed("json"), <<call>>, <<>>, store)
      ELSE IF Len(messages) = 0
      THEN Done(r, relayed("no response message"), <<call>>, <<>>, store)
      ELSE IF ~size.ok
      THEN Done(r, relayed("strconv"), <<call>>, <<>>, store)
      ELSE
        \/ \* p.db.Add fails
           Done(r, relayed("db"), <<call>>, <<DBCall("Add", content, FALSE)>>, store)
        \/ Done(r, relayed(""), <<call>>, <<DBCall("Add", content, TRUE)>>,
                Add(store, content, now))

HandleAdd ==
    /\ now < MaxClock
    /\ \E auth \in Auths, q \in AddQueries :
         handleAdd(Request("add", auth, q), AddBackend)

---------------------------------------------------------------------------
(* /api/v0/dag/import *)

RootMeta(cid, pinErrorMsg) == [Cid |-> cid, PinErrorMsg |-> pinErrorMsg]

CarImportStats(blockBytesCount) == [BlockBytesCount |-> blockBytesCount]

DAGImportResponseMessage(root, stats) == [Root |-> root, Stats |-> stats]

NoCid == [k \in {} |-> ""]

(* Answers of the backend to a forwarded dag/import request. *)
rootMsg(hash) == DAGImportResponseMessage(<<RootMeta(("/" :> hash), "")>>, NULL)
rootPinError == DAGImportResponseMessage(<<RootMeta(("/" :> "pin-hash-2"), "pin error")>>, NULL)
rootNoCid == DAGImportResponseMessage(<<RootMeta(NoCid, "")>>, NULL)
statsMsg(n) == DAGImportResponseMessage(NULL, <<CarImportStats(n)>>)

DAGImportBodies ==
    {<<>>, <<statsMsg(3072)>>, <<rootMsg("pin-hash-1")>>,
     <<rootMsg("pin-hash-1"), statsMsg(3072)>>, <<rootMsg("pin-hash-2"), statsMsg(512)>>,
     <<rootMsg("pin-hash-1"), rootMsg("pin-hash-2"), statsMsg(3072)>>,
     <<rootMsg("pin-hash-1"), statsMsg(3072), rootMsg("pin-hash-2")>>,
     <<rootMsg("pin-hash-1"), rootPinError, statsMsg(3072)>>,
     <<rootNoCid, statsMsg(3072)>>,
     <<rootMsg("pin-hash-2"), Malformed>>}

DAGImportBackend ==
    {BackendAnswer(StatusOK, b) : b \in DAGImportBodies} \cup
    {BackendAnswer(c, <<>>) : c \in BackendErrorCodes}

DAGImportQueries ==
    {NoQuery, ("silent" :> <<"">>)} \cup
    {("stats" :> <<v>>) : v \in {"", "true", "false"}}

(* Faulty variant: the parameter's presence alone decides. *)
Stats_PresentIsTrue(r) == Has(r.query, "stats")

(* Faulty variant: an explicit stats=false taken as true. *)
Stats_AlwaysTrue(r) == TRUE

Stats(r) ==
    IF ~Has(r.query, "stats") THEN FALSE
    ELSE IF Get(r.query, "stats") = "false" THEN FALSE
    ELSE TRUE

(* The decode loop of handleDAGImport, from message i on, with the roots   *)
(* accumulated so far; yields the error, the p.db.Add calls made and the   *)
(* rows they leave.  failAt is the number of the p.db.Add call that fails  *)
(* (0: none fails).                                                         *)
(* Faulty variant: a failed p.db.Add is logged and the loop goes on with   *)
(* the next root.                                                           *)
RECURSIVE importAdds_ContinueAfterFailure(_, _, _, _, _, _)
importAdds_ContinueAfterFailure(user, cids, size, rows, log, failAt) ==
    IF cids = <<>> THEN [err |-> "", log |-> log, rows |-> rows]
    ELSE LET content == Content(user, Head(cids), Head(cids) \o " (dag import)", size)
         IN IF Len(log) + 1 = failAt
            THEN importAdds_ContinueAfterFailure(user, Tail(cids), size, rows,
                                                 Append(log, DBCall("Add", content, FALSE)),
                                                 failAt)
            ELSE importAdds_ContinueAfterFailure(user, Tail(cids), size,
                                                 Add(rows, content, now),
                                                 Append(log, DBCall("Add", content, TRUE)),
                                                 failAt)

(* Faulty variant: only the first accumulated root is stored. *)
importAdds_OnlyFirstRoot(user, cids, size, rows, log, failAt) ==
    IF cids = <<>> THEN [err |-> "", log |-> log, rows |-> rows]
    ELSE LET content == Content(user, Head(cids), Head(cids) \o " (dag import)", size)
         IN IF Len(log) + 1 = failAt
            THEN [err |-> "db", log |-> Append(log, DBCall("Add", content, FALSE)),
                  rows |-> rows]
            ELSE [err |-> "", log |-> Append(log, DBCall("Add", content, TRUE)),
                  rows |-> Add(rows, content, now)]

RECURSIVE importAdds(_, _, _, _, _, _)
importAdds(user, cids, size, rows, log, failAt) ==
    IF cids = <<>> THEN [err |-> "", log |-> log, rows |-> rows]
    ELSE LET content == Content(user, Head(cids), Head(cids) \o " (dag import)", size)
         IN IF Len(log) + 1 = failAt
            THEN [err |-> "db", log |-> Append(log, DBCall("Add", content, FALSE)),
                  rows |-> rows]
            ELSE importAdds(user, Tail(cids), size, Add(rows, content, now),
                            Append(log, DBCall("Add", content, TRUE)), failAt)

(* Faulty variant: a root without the "/" key is passed over. *)
RECURSIVE importLoop_SkipRootWithoutCid(_, _, _, _, _)
importLoop_SkipRootWithoutCid(user, body, i, cids, failAt) ==
    IF i > Len(body) THEN [err |-> "", log |-> <<>>, rows |-> store]
    ELSE IF IsMalformed(body[i]) THEN [err |-> "json", log |-> <<>>, rows |-> store]
    ELSE
      LET msg == body[i]
          root == IF msg.Root # NULL THEN msg.Root[1] ELSE RootMeta(NoCid, "")
          cids2 == IF msg.Root # NULL /\ "/" \in DOMAIN root.Cid
                   THEN Append(cids, root.Cid["/"]) ELSE cids
      IN
      IF msg.Root # NULL /\ root.PinErrorMsg # ""
      THEN [err |-> root.PinErrorMsg, log |-> <<>>, rows |-> store]
      ELSE IF msg.Stats # NULL
      THEN importAdds(user, cids2, msg.Stats[1].BlockBytesCount, store, <<>>, failAt)
      ELSE importLoop_SkipRootWithoutCid(user, body, i + 1, cids2, failAt)

(* Faulty variant: a root's pin error is not looked at. *)
RECURSIVE importLoop_IgnorePinError(_, _, _, _, _)
importLoop_IgnorePinError(user, body, i, cids, failAt) ==
    IF i > Len(body) THEN [err |-> "", log |-> <<>>, rows |-> store]
    ELSE IF IsMalformed(body[i]) THEN [err |-> "json", log |-> <<>>, rows |-> store]
    ELSE
      LET msg == body[i]
          root == IF msg.Root # NULL THEN msg.Root[1] ELSE RootMeta(NoCid, "")
          cids2 == IF msg.Root # NULL THEN Append(cids, root.Cid["/"]) ELSE cids
      IN
      IF msg.Root # NULL /\ ~("/" \in DOMAIN root.Cid)
      THEN [err |-> "no root CID in response", log |-> <<>>, rows |-> store]
      ELSE IF msg.Stats # NULL
      THEN importAdds(user, cids2, msg.Stats[1].BlockBytesCount, store, <<>>, failAt)
      ELSE importLoop_IgnorePinError(user, body, i + 1, cids2, failAt)

RECURSIVE importLoop(_, _, _, _, _)
importLoop(user, body, i, cids, failAt) ==
    IF i > Len(body) THEN [err |-> "", log |-> <<>>, rows |-> store]
    ELSE IF IsMalformed(body[i]) THEN [err |-> "json", log |-> <<>>, rows |-> store]
    ELSE
      LET msg == body[i]
          root == IF msg.Root # NULL THEN msg.Root[1] ELSE RootMeta(NoCid, "")
          cids2 == IF msg.Root # NULL THEN Append(cids, root.Cid["/"]) ELSE cids
      IN
      IF msg.Root # NULL /\ root.PinErrorMsg # ""
      THEN [err |-> root.PinErrorMsg, log |-> <<>>, rows |-> store]
      ELSE IF msg.Root # NULL /\ ~("/" \in DOMAIN root.Cid)
      THEN [err |-> "no root CID in response", log |-> <<>>, rows |-> store]
      ELSE IF msg.Stats # NULL
      THEN importAdds(user, cids2, msg.Stats[1].BlockBytesCount, store, <<>>, failAt)
      ELSE importLoop(user, body, i + 1, cids2, failAt)

handleDAGImport(r, backend) ==
    LET user == BasicAuth(r).user
    IN
    IF ~BasicAuth(r).ok
    THEN Done(r, Response(StatusUnauthorized, ErrorBody("no basic auth"), "no basic auth"),
              <<>>, <<>>, store)
    ELSE IF Has(r.query, "stats") /\ ~Stats(r)
    THEN Done(r, Response(StatusBadRequest, ErrorBody("stats argument cannot be false"),
                          "stats argument cannot be false"),
              <<>>, <<>>, store)
    ELSE IF \E param \in DOMAIN r.query : param # "stats"
    THEN Done(r, Response(StatusBadRequest, ErrorBody("only stats argument is allowed"),
                          "only stats argument is allowed"),
              <<>>, <<>>, store)
    ELSE \E b \in backend :
      LET forwarded == IF ~Stats(r) THEN ("stats" :> <<"true">>) ELSE r.query
          call == BackendCall("/api/v0/dag/import", forwarded, b)
      IN
      IF b.code # StatusOK
      THEN Done(r, ResponseWriterWrapper(b, "Proxy error"), <<call>>, <<>>, store)
      ELSE \E failAt \in 0..Len(importLoop(user, b.body, 1, <<>>, 0).log) :
             LET out == importLoop(user, b.body, 1, <<>>, failAt)
             IN Done(r, ResponseWriterWrapper(b, out.err), <<call>>, out.log, out.rows)

HandleDAGImport ==
    /\ now < MaxClock
    /\ \E auth \in Auths, q \in DAGImportQueries :
         handleDAGImport(Request("dag/import", auth, q), DAGImportBackend)

---------------------------------------------------------------------------
(* The table the proxy is started on: empty, or filled beforehand as the   *)
(* handler tests do with prefillDB, one db.Add per record.                 *)
prefill ==
    <<Content("john", "pin-hash-1", "first.jpg", 1024),
      Content("shawn", "pin-hash-1", "first.jpg", 1024),
      Content("john", "pin-hash-2", "second.jpg", 1024)>>

RECURSIVE prefillDB(_, _, _)
prefillDB(rows, contents, t) ==
    IF contents = <<>> THEN rows
    ELSE prefillDB(Add(rows, Head(contents), t), Tail(contents), t + 1)

(* response_writer_wrapper.go.  The wrapped http.ResponseWriter is what it *)
(* has been handed so far, in order; calls is the sequence of calls made    *)
(* on the wrapper.                                                          *)
NewResponseWriterWrapper ==
    [ResponseWriter |-> <<>>, StatusCode |-> StatusOK, Body |-> <<>>, calls |-> <<>>]

HeaderCall(statusCode) == [method |-> "WriteHeader", statusCode |-> statusCode]

WriteCall(b) == [method |-> "Write", b |-> b]

(* Faulty variant: the status is recorded and not passed on. *)
WriteHeader_RecordOnly(w, statusCode) ==
    [w EXCEPT !.StatusCode = statusCode,
              !.calls = Append(@, HeaderCall(statusCode))]

WriteHeader(w, statusCode) ==
    [w EXCEPT !.StatusCode = statusCode,
              !.ResponseWriter = Append(@, HeaderCall(statusCode)),
              !.calls = Append(@, HeaderCall(statusCode))]

(* Faulty variant: the copy keeps the latest chunk only. *)
Write_KeepLatest(w, b) ==
    [w EXCEPT !.Body = b,
              !.ResponseWriter = Append(@, WriteCall(b)),
              !.calls = Append(@, WriteCall(b))]

Write(w, b) ==
    [w EXCEPT !.Body = @ \o b,
              !.ResponseWriter = Append(@, WriteCall(b)),
              !.calls = Append(@, WriteCall(b))]

(* net/http serves every request in a goroutine of its own; a goroutine   *)
(* that handles no request is idle.                                         *)
Goroutines == {"g1", "g2"}

Idle ==
    [pc |-> "idle",
     r |-> Request("", [ok |-> FALSE, user |-> "", password |-> ""], NoQuery),
     backendArgs |-> {},    \* pin/rm: the ids left for the backend
     toAdd |-> <<>>,        \* add, dag/import: what is still to be stored
     stored |-> {},         \* add, dag/import: the ids whose upsert committed
     status |-> 0,          \* the status the caller has received, 0 for none yet
     posted |-> NULL,       \* pin/rm: the backend's answer to the call made
     wrote |-> NULL,        \* the time of the latest store write committed
     ops |-> <<>>,          \* the store operations and backend calls made, in order
     sent |-> 0]            \* how many times a status has been written to the caller

Init ==
    /\ \E contents \in {<<>>, prefill} :
         /\ store = prefillDB({}, contents, 0 - Len(contents))
         /\ held = [u \in Users |->
                      {c.Hash : c \in {x \in Range(contents) : x.User = u}}]
    /\ prev = store
    /\ now = 0
    /\ req = Request("", [ok |-> FALSE, user |-> "", password |-> ""], NoQuery)
    /\ resp = Response(0, "", "")
    /\ calls = <<>>
    /\ dbLog = <<>>
    /\ pinned = {r.hash : r \in {x \in store : x.removed = NULL}}
    /\ inflight = [g \in Goroutines |-> Idle]
    /\ rww = NewResponseWriterWrapper

Next ==
    \/ HandleAdd
    \/ HandleDAGImport
    \/ HandlePinLs
    \/ HandlePinRm

Spec == Init /\ [][Next]_vars

---------------------------------------------------------------------------
(* One upload against every answer the backend can give: up to MaxResults  *)
(* results, each any combination of two names, the two ids and two sizes,   *)
(* or a value that does not decode.                                         *)
UploadResults ==
    {AddResponseMessage(n, h, z) :
        n \in {"first.jpg", "photos"}, h \in Hashes,
        z \in {<<"1", "0", "2", "4">>, <<"5", "1", "2">>}}
    \cup {Malformed}

UploadBackend ==
    {BackendAnswer(StatusOK, b) : b \in SeqsUpTo(UploadResults, MaxResults)} \cup
    {BackendAnswer(c, <<>>) : c \in BackendErrorCodes}

(* Every shape of the query of an upload: none, another parameter, the    *)
(* wrap flag with and without value, and the cid-version the tests send.    *)
UploadQueries ==
    AddQueries \cup
    {("wrap-with-directory" :> v) : v \in {<<"">>, <<"1">>, <<"false", "true">>}} \cup
    {("cid-version" :> <<v>>) : v \in {"", "0", "1", "2", "x"}}

UploadOnce ==
    /\ now = 0
    /\ \E auth \in Auths, q \in UploadQueries :
         handleAdd(Request("add", auth, q), UploadBackend)

NextUpload == UploadOnce

SpecUpload == Init /\ [][NextUpload]_vars

---------------------------------------------------------------------------
(* One import against every answer the backend can give: up to MaxMessages *)
(* messages, each a root (of either id, with a pin error, or without the    *)
(* "/" key), a stats message, a message with both or with neither, or a     *)
(* value that does not decode; and with every shape of the stats parameter. *)
ImportMessages ==
    {rootMsg(h) : h \in Hashes} \cup
    {rootPinError, rootNoCid, statsMsg(3072),
     DAGImportResponseMessage(<<RootMeta(("/" :> "pin-hash-2"), "")>>, <<CarImportStats(512)>>),
     DAGImportResponseMessage(NULL, NULL),
     Malformed}

ImportBackend ==
    {BackendAnswer(StatusOK, b) : b \in SeqsUpTo(ImportMessages, MaxMessages)} \cup
    {BackendAnswer(c, <<>>) : c \in BackendErrorCodes}

ImportQueries ==
    {NoQuery, ("silent" :> <<"">>)} \cup
    {("stats" :> v) : v \in {<<"">>, <<"true">>, <<"false">>, <<"1">>,
                             <<"true", "false">>, <<"false", "true">>}}

ImportOnce ==
    /\ now = 0
    /\ \E auth \in Auths, q \in ImportQueries :
         handleDAGImport(Request("dag/import", auth, q), ImportBackend)

NextImport == ImportOnce

SpecImport == Init /\ [][NextImport]_vars

---------------------------------------------------------------------------
(* One request, on any endpoint, with any password. *)
ServeHTTP(r) ==
    CASE r.op = "add" -> handleAdd(r, AddBackend)
      [] r.op = "dag/import" -> handleDAGImport(r, DAGImportBackend)
      [] r.op = "pin/ls" -> handlePinLs(r)
      [] r.op = "pin/rm" -> handlePinRm(r)

AddWithPassword ==
    /\ now = 0
    /\ \E auth \in Credentials(Passwords), q \in AddQueries :
         ServeHTTP(Request("add", auth, q))

DAGImportWithPassword ==
    /\ now = 0
    /\ \E auth \in Credentials(Passwords), q \in DAGImportQueries :
         ServeHTTP(Request("dag/import", auth, q))

PinLsWithPassword ==
    /\ now = 0
    /\ \E auth \in Credentials(Passwords), q \in PinLsQueries :
         ServeHTTP(Request("pin/ls", auth, q))

PinRmWithPassword ==
    /\ now = 0
    /\ \E auth \in Credentials(Passwords), q \in PinRmQueries :
         ServeHTTP(Request("pin/rm", auth, q))

NextPassword ==
    \/ AddWithPassword
    \/ DAGImportWithPassword
    \/ PinLsWithPassword
    \/ PinRmWithPassword

SpecPassword == Init /\ [][NextPassword]_vars

---------------------------------------------------------------------------
(* Requests handled one at a time against a store that works and a backend *)
(* that is reachable and answers with success and a well-formed body: one   *)
(* file, a file with its enclosing directory, or roots followed by the      *)
(* stats message.                                                           *)
WellFormedAdd ==
    {BackendAnswer(StatusOK, b) : b \in {<<firstFile>>, <<secondFile>>, <<firstFile, directory>>}}

WellFormedDAGImport ==
    {BackendAnswer(StatusOK, b) :
       b \in {<<rootMsg(h), statsMsg(3072)>> : h \in Hashes} \cup
             {<<rootMsg("pin-hash-1"), rootMsg("pin-hash-2"), statsMsg(3072)>>}}

AllSucceeded ==
    /\ \A i \in DOMAIN dbLog : dbLog[i].ok
    /\ \A i \in DOMAIN calls : calls[i].answer.code = StatusOK

SequentialAdd ==
    /\ now < MaxClock
    /\ \E auth \in Auths, q \in AddQueries :
         handleAdd(Request("add", auth, q), WellFormedAdd)
    /\ AllSucceeded'

SequentialDAGImport ==
    /\ now < MaxClock
    /\ \E auth \in Auths, q \in DAGImportQueries :
         handleDAGImport(Request("dag/import", auth, q), WellFormedDAGImport)
    /\ AllSucceeded'

SequentialPinLs ==
    /\ HandlePinLs
    /\ AllSucceeded'

SequentialPinRm ==
    /\ HandlePinRm
    /\ AllSucceeded'

NextSequential ==
    \/ SequentialAdd
    \/ SequentialDAGImport
    \/ SequentialPinLs
    \/ SequentialPinRm

SpecSequential == Init /\ [][NextSequential]_vars

---------------------------------------------------------------------------
(* Requests handled concurrently.  A handler gives way to the others at    *)
(* its backend round trip and at each of its store operations, so each of   *)
(* these is a step of its own; a store operation is one statement and       *)
(* takes effect at once.  The requests are those that pass validation, the  *)
(* observation variables describe the latest step, and the clock ticks at   *)
(* every store write.                                                       *)
Authenticated == {a \in Auths : a.ok}

IsWrite(dbCalls) ==
    \E i \in DOMAIN dbCalls :
       dbCalls[i].op \in {"Add", "RemoveContentByHashForUser"} /\ dbCalls[i].ok

Step(g, next, response, backendCalls, dbCalls, rows) ==
    /\ inflight' = [inflight EXCEPT ![g] =
                      [next EXCEPT !.ops =
                         inflight[g].ops
                         \o [i \in DOMAIN dbCalls |-> [op |-> dbCalls[i].op, ok |-> dbCalls[i].ok]]
                         \o [i \in DOMAIN backendCalls |->
                               [op |-> backendCalls[i].endpoint,
                                ok |-> backendCalls[i].answer.code = StatusOK]],
                            !.sent =
                         inflight[g].sent + (IF response.status # 0 THEN 1 ELSE 0)]]
    /\ held' = [held EXCEPT ![BasicAuth(next.r).user] = heldAfter(@, dbCalls)]
    /\ now' = IF IsWrite(dbCalls) THEN now + 1 ELSE now
    /\ req' = next.r
    /\ resp' = response
    /\ calls' = backendCalls
    /\ dbLog' = dbCalls
    /\ prev' = store
    /\ store' = rows
    /\ pinned' = pinsAfter(pinned, backendCalls)
    /\ UNCHANGED rww

(* Nothing is written to the caller. *)
Pending == Response(0, "", "")

(* The handler returns an error after the answer has been written: the     *)
(* Handle function drops it.                                                *)
Dropped(err) == Response(0, "", err)

(* The status a handler answers a request with that fails its validation   *)
(* of credentials and parameters, 0 for a request that passes.             *)
ValidationStatus(r) ==
    IF ~BasicAuth(r).ok THEN StatusUnauthorized
    ELSE IF r.op = "add"
    THEN IF \E param \in DOMAIN r.query : param # "wrap-with-directory"
         THEN StatusForbidden ELSE 0
    ELSE IF r.op = "dag/import"
    THEN IF (Has(r.query, "stats") /\ ~Stats(r)) \/ \E param \in DOMAIN r.query : param # "stats"
         THEN StatusBadRequest ELSE 0
    ELSE IF r.op = "pin/ls"
    THEN IF DOMAIN r.query # {} THEN StatusBadRequest ELSE 0
    ELSE IF (\E param \in DOMAIN r.query : param # "arg") \/ ~Has(r.query, "arg")
         THEN StatusBadRequest ELSE 0

Endpoints == {"add", "dag/import", "pin/ls", "pin/rm"}

(* Requests that fail validation: no credentials, a parameter no endpoint  *)
(* allows, stats=false, no arg.                                             *)
InvalidRequests ==
    {Request(op, [ok |-> FALSE, user |-> "", password |-> ""], NoQuery) : op \in Endpoints} \cup
    {Request(op, auth, ("silent" :> <<"">>)) : op \in Endpoints, auth \in Authenticated} \cup
    {Request("dag/import", auth, ("stats" :> <<"false">>)) : auth \in Authenticated} \cup
    {Request("pin/rm", auth, NoQuery) : auth \in Authenticated}

(* A handler that rejects its request at validation: http.Error, return. *)
Reject(g) ==
    /\ inflight[g].pc = "idle"
    /\ \E r \in InvalidRequests :
         /\ ValidationStatus(r) # 0
         /\ inflight' = [inflight EXCEPT ![g] =
                           [Idle EXCEPT !.pc = "done", !.r = r,
                                        !.status = ValidationStatus(r), !.sent = 1]]
         /\ req' = r
         /\ resp' = Response(ValidationStatus(r), ErrorBody("validation"), "validation")
         /\ calls' = <<>>
         /\ dbLog' = <<>>
         /\ prev' = store
         /\ UNCHANGED <<store, now, held, pinned, rww>>

(* handlePinLs: one store operation, then the answer. *)
PinLs(g) ==
    /\ inflight[g].pc = "idle"
    /\ \E auth \in Authenticated :
         LET r == Request("pin/ls", auth, NoQuery)
             user == BasicAuth(r).user
             hashes == ListActiveContentByUser(store, user)
             keys == [hash \in hashes |-> [Type |-> "recursive"]]
         IN
         \/ \* p.db.ListActiveContentByUser fails
            Step(g, [Idle EXCEPT !.pc = "done", !.r = r, !.status = StatusInternalServerError],
                 Response(StatusInternalServerError, ErrorBody("db"), "db"),
                 <<>>, <<DBCall("ListActiveContentByUser", user, FALSE)>>, store)
         \/ Step(g, [Idle EXCEPT !.pc = "done", !.r = r, !.status = StatusOK],
                 Response(StatusOK, PinLsResponseMessage(keys), ""),
                 <<>>, <<DBCall("ListActiveContentByUser", user, TRUE)>>, store)

(* handlePinRm up to p.db.ListActiveContentByHash and the loop over its    *)
(* result.                                                                  *)
PinRmList(g) ==
    /\ inflight[g].pc = "idle"
    /\ \E auth \in Authenticated, toRemove \in SeqsUpTo(Hashes, MaxArgs) \ {<<>>} :
         LET r == Request("pin/rm", auth, ("arg" :> toRemove))
             user == BasicAuth(r).user
             userHashes == ListActiveContentByHash(store, toRemove)
             backendArgs == backendArgsOf(user, toRemove, userHashes)
             checkArgs == checkArgsOf(user, toRemove, userHashes)
             list == DBCall("ListActiveContentByHash", toRemove, TRUE)
         IN
         \/ \* p.db.ListActiveContentByHash fails
            Step(g, [Idle EXCEPT !.pc = "done", !.r = r, !.status = StatusInternalServerError],
                 Response(StatusInternalServerError, ErrorBody("db"), "db"),
                 <<>>, <<DBCall("ListActiveContentByHash", toRemove, FALSE)>>, store)
         \/ IF Cardinality(checkArgs) > 0
            THEN Step(g, [Idle EXCEPT !.pc = "done", !.r = r, !.status = StatusNotFound],
                      Response(StatusNotFound,
                               [error |-> "not pinned or pinned indirectly", ids |-> checkArgs],
                               "not pinned or pinned indirectly"),
                      <<>>, <<list>>, store)
            ELSE Step(g, [Idle EXCEPT !.pc = "listed", !.r = r, !.backendArgs = backendArgs],
                      Pending, <<>>, <<list>>, store)

(* Faulty variant: a failed removal is logged and the handler goes on to   *)
(* the backend call.                                                        *)
PinRmRemove_PostAnyway(g) ==
    /\ inflight[g].pc = "listed"
    /\ LET st == inflight[g]
           user == BasicAuth(st.r).user
           toRemove == st.r.query["arg"]
           remove(ok) == DBCall("RemoveContentByHashForUser", <<user, toRemove>>, ok)
           removed == RemoveContentByHashForUser(store, user, toRemove, now)
       IN
       \/ \* p.db.RemoveContentByHashForUser fails
          Step(g, [st EXCEPT !.pc = "removed"], Pending, <<>>, <<remove(FALSE)>>, store)
       \/ IF Cardinality(st.backendArgs) = 0
          THEN Step(g, [st EXCEPT !.pc = "done", !.status = StatusOK, !.wrote = <<now>>],
                    writeResponse(toRemove), <<>>, <<remove(TRUE)>>, removed)
          ELSE Step(g, [st EXCEPT !.pc = "removed", !.wrote = <<now>>],
                    Pending, <<>>, <<remove(TRUE)>>, removed)

(* handlePinRm from p.db.RemoveContentByHashForUser to the check of         *)
(* backendArgs.                                                             *)
PinRmRemove(g) ==
    /\ inflight[g].pc = "listed"
    /\ LET st == inflight[g]
           user == BasicAuth(st.r).user
           toRemove == st.r.query["arg"]
           remove(ok) == DBCall("RemoveContentByHashForUser", <<user, toRemove>>, ok)
           removed == RemoveContentByHashForUser(store, user, toRemove, now)
       IN
       \/ \* p.db.RemoveContentByHashForUser fails
          Step(g, [st EXCEPT !.pc = "done", !.status = StatusInternalServerError],
               Response(StatusInternalServerError, ErrorBody("db"), "db"),
               <<>>, <<remove(FALSE)>>, store)
       \/ IF Cardinality(st.backendArgs) = 0
          THEN Step(g, [st EXCEPT !.pc = "done", !.status = StatusOK, !.wrote = <<now>>],
                    writeResponse(toRemove), <<>>, <<remove(TRUE)>>, removed)
          ELSE Step(g, [st EXCEPT !.pc = "removed", !.wrote = <<now>>],
                    Pending, <<>>, <<remove(TRUE)>>, removed)

(* handlePinRm from http.DefaultClient.Post to the end. *)
PinRmPost(g) ==
    /\ inflight[g].pc = "removed"
    /\ LET st == inflight[g]
           toRemove == st.r.query["arg"]
       IN
       \E args \in setToSlice(st.backendArgs), b \in PinRmBackend :
          LET call == BackendCall("/api/v0/pin/rm", ("arg" :> args), b)
              response == pinRmResponse(b, toRemove)
          IN Step(g, [st EXCEPT !.pc = "done", !.status = response.status, !.posted = <<b>>],
                  response, <<call>>, <<>>, store)

(* The answers of the backend to a concurrent upload or import: a failure, *)
(* or a success with one file, or with one or two roots and the stats.      *)
ConcurrentAddBackend ==
    {BackendAnswer(StatusOK, b) : b \in {<<firstFile>>, <<secondFile>>}} \cup
    {BackendAnswer(c, <<>>) : c \in {StatusInternalServerError, StatusBadGateway}}

ConcurrentDAGImportBackend ==
    WellFormedDAGImport \cup
    {BackendAnswer(c, <<>>) : c \in {StatusInternalServerError, StatusBadGateway}}

(* handleAdd up to the decoding of the answer p.proxy.ServeHTTP relayed. *)
AddForward(g) ==
    /\ inflight[g].pc = "idle"
    /\ \E auth \in Authenticated, b \in ConcurrentAddBackend :
         LET r == Request("add", auth, NoQuery)
             call == BackendCall("/api/v0/add", r.query, b)
             messages == decode(b.body).messages
             last == messages[Len(messages)]
             content == Content(BasicAuth(r).user, last.Hash, last.Name,
                                ParseInt(last.Size).value)
         IN
         IF b.code # StatusOK
         THEN Step(g, [Idle EXCEPT !.pc = "done", !.r = r, !.status = b.code],
                   ResponseWriterWrapper(b, ""), <<call>>, <<>>, store)
         ELSE Step(g, [Idle EXCEPT !.pc = "forwarded", !.r = r, !.status = b.code,
                                   !.toAdd = <<content>>],
                   ResponseWriterWrapper(b, ""), <<call>>, <<>>, store)

(* Faulty variant: the error of p.db.Add is written to the caller as a     *)
(* status, after the backend's answer has been relayed.                     *)
AddStore_ErrorStatus(g) ==
    /\ inflight[g].pc = "forwarded"
    /\ inflight[g].r.op = "add"
    /\ LET st == inflight[g]
           content == st.toAdd[1]
       IN
       \/ \* p.db.Add fails
          Step(g, [st EXCEPT !.pc = "done", !.toAdd = <<>>],
               Response(StatusInternalServerError, ErrorBody("db"), "db"),
               <<>>, <<DBCall("Add", content, FALSE)>>, store)
       \/ Step(g, [st EXCEPT !.pc = "done", !.toAdd = <<>>, !.wrote = <<now>>,
                             !.stored = @ \cup {content.Hash}],
               Pending, <<>>, <<DBCall("Add", content, TRUE)>>,
               Add(store, content, now))

(* handleAdd: p.db.Add. *)
AddStore(g) ==
    /\ inflight[g].pc = "forwarded"
    /\ inflight[g].r.op = "add"
    /\ LET st == inflight[g]
           content == st.toAdd[1]
       IN
       \/ \* p.db.Add fails
          Step(g, [st EXCEPT !.pc = "done", !.toAdd = <<>>],
               Dropped("db"), <<>>, <<DBCall("Add", content, FALSE)>>, store)
       \/ Step(g, [st EXCEPT !.pc = "done", !.toAdd = <<>>, !.wrote = <<now>>,
                             !.stored = @ \cup {content.Hash}],
               Pending, <<>>, <<DBCall("Add", content, TRUE)>>,
               Add(store, content, now))

(* handleDAGImport up to the message that carries the stats. *)
DAGImportForward(g) ==
    /\ inflight[g].pc = "idle"
    /\ \E auth \in Authenticated, b \in ConcurrentDAGImportBackend :
         LET r == Request("dag/import", auth, NoQuery)
             call == BackendCall("/api/v0/dag/import", ("stats" :> <<"true">>), b)
             messages == decode(b.body).messages
             cids == [i \in 1..(Len(messages) - 1) |-> messages[i].Root[1].Cid["/"]]
             size == messages[Len(messages)].Stats[1].BlockBytesCount
             contents == [i \in DOMAIN cids |->
                            Content(BasicAuth(r).user, cids[i], cids[i] \o " (dag import)", size)]
         IN
         IF b.code # StatusOK
         THEN Step(g, [Idle EXCEPT !.pc = "done", !.r = r, !.status = b.code],
                   ResponseWriterWrapper(b, "Proxy error"), <<call>>, <<>>, store)
         ELSE Step(g, [Idle EXCEPT !.pc = "forwarded", !.r = r, !.status = b.code,
                                   !.toAdd = contents],
                   ResponseWriterWrapper(b, ""), <<call>>, <<>>, store)

(* handleDAGImport: one p.db.Add of the loop over the roots. *)
DAGImportStore(g) ==
    /\ inflight[g].pc = "forwarded"
    /\ inflight[g].r.op = "dag/import"
    /\ LET st == inflight[g]
           content == st.toAdd[1]
           rest == Tail(st.toAdd)
       IN
       \/ \* p.db.Add fails
          Step(g, [st EXCEPT !.pc = "done", !.toAdd = <<>>],
               Dropped("db"), <<>>, <<DBCall("Add", content, FALSE)>>, store)
       \/ Step(g, [st EXCEPT !.pc = IF rest = <<>> THEN "done" ELSE "forwarded",
                             !.toAdd = rest, !.wrote = <<now>>,
                             !.stored = @ \cup {content.Hash}],
               Pending, <<>>, <<DBCall("Add", content, TRUE)>>,
               Add(store, content, now))

NextConcurrent ==
    \/ \E g \in Goroutines : PinRmList(g)
    \/ \E g \in Goroutines : PinRmRemove(g)
    \/ \E g \in Goroutines : PinRmPost(g)
    \/ \E g \in Goroutines : AddForward(g)
    \/ \E g \in Goroutines : AddStore(g)
    \/ \E g \in Goroutines : DAGImportForward(g)
    \/ \E g \in Goroutines : DAGImportStore(g)
    \/ \E g \in Goroutines : PinLs(g)
    \/ \E g \in Goroutines : Reject(g)

SpecConcurrent == Init /\ [][NextConcurrent]_vars

(* A handler that has started goes on: each store operation and each       *)
(* backend round trip returns, and the goroutine is scheduled again.        *)
Continue(g) ==
    \/ PinRmRemove(g)
    \/ PinRmPost(g)
    \/ AddStore(g)
    \/ DAGImportStore(g)

SpecConcurrentFair == SpecConcurrent /\ \A g \in Goroutines : WF_inflight(Continue(g))

---------------------------------------------------------------------------
(* The store on its own: upserts and removals with any identity and any    *)
(* ids, whatever the table holds.  A statement can fail as a whole          *)
(* (ExecContext returns an error) and then changes nothing.                 *)
StoreCall(user, call, rows) ==
    /\ store' = IF call.ok THEN rows ELSE store
    /\ prev' = store
    /\ now' = now + 1
    /\ dbLog' = <<call>>
    /\ held' = [held EXCEPT ![user] = heldAfter(@, <<call>>)]
    /\ UNCHANGED <<req, resp, calls, pinned, inflight, rww>>

DBAdd ==
    /\ now < MaxClock
    /\ \E user \in Users, hash \in Hashes, ok \in BOOLEAN :
         LET content == Content(user, hash, "first.jpg", 1024)
         IN StoreCall(user, DBCall("Add", content, ok), Add(store, content, now))

DBRemoveContentByHashForUser ==
    /\ now < MaxClock
    /\ \E user \in Users, hashes \in SeqsUpTo(Hashes, MaxArgs), ok \in BOOLEAN :
         StoreCall(user, DBCall("RemoveContentByHashForUser", <<user, hashes>>, ok),
                   RemoveContentByHashForUser(store, user, hashes, now))

NextStore ==
    \/ DBAdd
    \/ DBRemoveContentByHashForUser

SpecStore == Init /\ [][NextStore]_vars

---------------------------------------------------------------------------
(* The wrapper on its own: any sequence of up to MaxWrites calls, with any *)
(* of the status codes and any of a few chunks, the empty one included.     *)
Chunks == {<<>>, <<"a">>, <<"b", "c">>}

StatusCodes == {StatusOK, StatusNotFound, StatusInternalServerError}

CallWriteHeader ==
    /\ Len(rww.calls) < MaxWrites
    /\ \E statusCode \in StatusCodes : rww' = WriteHeader(rww, statusCode)
    /\ UNCHANGED <<store, prev, now, req, resp, calls, dbLog, held, pinned, inflight>>

CallWrite ==
    /\ Len(rww.calls) < MaxWrites
    /\ \E b \in Chunks : rww' = Write(rww, b)
    /\ UNCHANGED <<store, prev, now, req, resp, calls, dbLog, held, pinned, inflight>>

NextWrapper ==
    \/ CallWriteHeader
    \/ CallWrite

SpecWrapper == Init /\ [][NextWrapper]_vars

---------------------------------------------------------------------------
(* Vocabulary of the properties: the latest request and the two tables.   *)


Caller == req.auth.user

Requested == IF Has(req.query, "arg") THEN req.query["arg"] ELSE <<>>

RequestedIds == Range(Requested)

RecordsOf(rows, u, c) == {r \in rows : r.username = u /\ r.hash = c}

HoldsActive(rows, u, c) == \E r \in RecordsOf(rows, u, c) : r.removed = NULL

OthersHold(rows, u, c) == \E o \in Users \ {u} : HoldsActive(rows, o, c)

OwnsAllRequested == \A c \in RequestedIds : HoldsActive(prev, Caller, c)

(* Every store operation of the latest request succeeded. *)
StoreWorked == \A i \in DOMAIN dbLog : dbLog[i].ok

(* A pin/rm request that passed validation of credentials and parameters. *)
ValidPinRm == req.op = "pin/rm" /\ req.auth.ok /\ DOMAIN req.query = {"arg"}

(* The ids named in the backend pin-removal calls of the latest request. *)
ForwardedIds == UNION {Range(calls[i].query["arg"]) : i \in DOMAIN calls}

(* The caller's records for the requested ids exist and are all removed. *)
RequestedAreRemoved ==
    \A c \in RequestedIds :
        /\ RecordsOf(store, Caller, c) # {}
        /\ \A r \in RecordsOf(store, Caller, c) : r.removed # NULL

(* The successful db.Add calls of the latest request. *)
Uploaded == {dbLog[i].arg : i \in {j \in DOMAIN dbLog : dbLog[j].op = "Add" /\ dbLog[j].ok}}

---------------------------------------------------------------------------
(* C1: pin-remove reconciliation.  When the caller holds an active record  *)
(* for every requested id (and the store operations succeed), the ids      *)
(* forwarded to the backend, in one single call or in no call when there   *)
(* are none, are exactly the requested ids no other identity holds an      *)
(* active record for, and afterwards the table is the table before with    *)
(* exactly the caller's records for the requested ids deactivated.         *)
C1_Reconciliation ==
    (ValidPinRm /\ StoreWorked /\ OwnsAllRequested) =>
        LET expected == {c \in RequestedIds : ~OthersHold(prev, Caller, c)}
        IN /\ ForwardedIds = expected
           /\ Len(calls) = IF expected = {} THEN 0 ELSE 1
           /\ \A i \in DOMAIN calls :
                /\ calls[i].endpoint = "/api/v0/pin/rm"
                /\ DOMAIN calls[i].query = {"arg"}
                /\ Len(calls[i].query["arg"]) = Cardinality(expected)
           /\ Cardinality(store) = Cardinality(prev)
           /\ \A r \in prev :
                IF r.username = Caller /\ r.hash \in RequestedIds
                THEN \E r2 \in store : r2.removed # NULL /\ [r2 EXCEPT !.removed = NULL] = r
                ELSE r \in store

C1_Witness ==
    /\ ValidPinRm /\ StoreWorked /\ OwnsAllRequested
    /\ \E c \in RequestedIds : OthersHold(prev, Caller, c)
    /\ \E c \in RequestedIds : ~OthersHold(prev, Caller, c)
    /\ Len(calls) = 1
    /\ store # prev

(* C2: partial ownership failure is atomic.  If some requested id has no   *)
(* active record of the caller, no record changes, no backend call is      *)
(* made, the table is not written, and the answer is 404 (the listing      *)
(* having succeeded).                                                      *)
C2_PartialOwnershipAtomic ==
    (ValidPinRm /\ ~OwnsAllRequested) =>
        /\ store = prev
        /\ calls = <<>>
        /\ \A i \in DOMAIN dbLog : dbLog[i].op # "RemoveContentByHashForUser"
        /\ StoreWorked => resp.status = StatusNotFound

C2_Witness ==
    /\ ValidPinRm /\ StoreWorked
    /\ \E c \in RequestedIds : HoldsActive(prev, Caller, c)
    /\ \E c \in RequestedIds : ~HoldsActive(prev, Caller, c) /\ OthersHold(prev, Caller, c)
    /\ resp.status = StatusNotFound

(* C3: isolation of shared content.  When the caller and another identity  *)
(* both hold an active record for an id and the caller removes its pin,    *)
(* the caller's record becomes removed, the other identity's record is     *)
(* unchanged, the id is not forwarded to the backend, and a request made   *)
(* without a backend call is answered with success.                        *)
C3_SharedContentIsolation ==
    \A c \in Hashes, o \in Users :
        (/\ ValidPinRm /\ StoreWorked /\ OwnsAllRequested
         /\ c \in RequestedIds /\ o # Caller /\ HoldsActive(prev, o, c)) =>
            /\ RecordsOf(store, Caller, c) # {}
            /\ ~HoldsActive(store, Caller, c)
            /\ RecordsOf(store, o, c) = RecordsOf(prev, o, c)
            /\ HoldsActive(store, o, c)
            /\ c \notin ForwardedIds
            /\ RequestedIds = {c} => calls = <<>>
            /\ calls = <<>> => (resp.status = StatusOK /\ resp.body = [Pins |-> Requested])

C3_Witness ==
    /\ ValidPinRm /\ StoreWorked /\ OwnsAllRequested
    /\ \E c \in RequestedIds : OthersHold(prev, Caller, c) /\ ~HoldsActive(store, Caller, c)
    /\ calls = <<>>
    /\ resp.status = StatusOK

(* C4: uniqueness.  In every reachable state the table holds at most one   *)
(* record per (identity, contentId) pair.                                  *)
C4_Uniqueness ==
    \A r1, r2 \in store : Key(r1) = Key(r2) => r1 = r2

(* An identity uploads again an id it already has a record for, while      *)
(* another identity holds its own record for the same id.                  *)
C4_Witness ==
    \E content \in Uploaded :
        /\ RecordsOf(prev, content.User, content.Hash) # {}
        /\ \E r \in store : r.hash = content.Hash /\ r.username # content.User

(* C5: reactivation.  A successful upload of an id by an identity whose    *)
(* record for it was marked removed leaves exactly that one record, active *)
(* again, with its createdAt as it was.                                    *)
C5_Reactivation ==
    \A content \in Uploaded :
        \A r \in RecordsOf(prev, content.User, content.Hash) :
            r.removed # NULL =>
                /\ Cardinality(RecordsOf(store, content.User, content.Hash)) = 1
                /\ \A r2 \in RecordsOf(store, content.User, content.Hash) :
                     r2.removed = NULL /\ r2.created = r.created

C5_Witness ==
    \E content \in Uploaded :
        \E r \in RecordsOf(prev, content.User, content.Hash) :
            /\ r.removed # NULL
            /\ r.created < now - 1
            /\ HoldsActive(store, content.User, content.Hash)

(* C6: upload idempotence.  Uploading again what an identity's active      *)
(* record already says (same id, label and size) leaves that record as it  *)
(* was, and a request all of whose uploads are of that kind leaves the     *)
(* whole table as it was.                                                  *)
SameAsRecord(content, r) ==
    r.removed = NULL /\ r.name = content.Name /\ r.size = content.Size

C6_UploadIdempotence ==
    /\ \A content \in Uploaded :
         \A r \in RecordsOf(prev, content.User, content.Hash) :
             SameAsRecord(content, r) =>
                 RecordsOf(store, content.User, content.Hash) = {r}
    /\ (/\ Uploaded # {}
        /\ StoreWorked
        /\ \A content \in Uploaded :
             \E r \in RecordsOf(prev, content.User, content.Hash) : SameAsRecord(content, r))
       => store = prev

C6_Witness ==
    /\ req.op \in {"add", "dag/import"}
    /\ resp.status = StatusOK
    /\ \E content \in Uploaded :
         \E r \in RecordsOf(prev, content.User, content.Hash) :
             SameAsRecord(content, r) /\ r.created < now - 1
    /\ store = prev

(* C7: backend unreachable during pin-remove.  When the backend call could *)
(* not be made, the caller gets a success response listing the requested   *)
(* ids and the caller's records for them are removed.                      *)
C7_BackendUnreachable ==
    (req.op = "pin/rm" /\ Len(calls) = 1 /\ ~calls[1].answer.reached) =>
        /\ resp.status = StatusOK
        /\ resp.body = [Pins |-> Requested]
        /\ RequestedAreRemoved

C7_Witness ==
    /\ req.op = "pin/rm" /\ Len(calls) = 1 /\ ~calls[1].answer.reached
    /\ Cardinality(RequestedIds) = 2
    /\ \A c \in RequestedIds : HoldsActive(prev, Caller, c)

(* C8: backend failure during pin-remove.  When the backend answers with   *)
(* a non-success status, the caller receives that status and body, and     *)
(* the caller's records for the requested ids stay removed.                *)
C8_BackendFailureRelayed ==
    (/\ req.op = "pin/rm" /\ Len(calls) = 1
     /\ calls[1].answer.reached /\ calls[1].answer.code # StatusOK) =>
        /\ resp.status = calls[1].answer.code
        /\ resp.body = calls[1].answer.body
        /\ RequestedAreRemoved

C8_Witness ==
    /\ req.op = "pin/rm" /\ Len(calls) = 1
    /\ calls[1].answer.reached /\ calls[1].answer.code = StatusInternalServerError
    /\ resp.status = StatusInternalServerError
    /\ \A c \in RequestedIds : HoldsActive(prev, Caller, c)

(* C9: validation is fail-fast on every endpoint.  A request without       *)
(* credentials, with a query parameter the endpoint does not allow, with   *)
(* stats=false on dag/import or without arg on pin/rm is answered with a   *)
(* non-success status, makes no backend request and no store call, and     *)
(* leaves the table as it was.                                             *)
AllowedParams(op) ==
    CASE op = "add" -> {"wrap-with-directory"}
      [] op = "dag/import" -> {"stats"}
      [] op = "pin/rm" -> {"arg"}
      [] OTHER -> {}

FailsValidation ==
    \/ ~req.auth.ok
    \/ \E param \in DOMAIN req.query : param \notin AllowedParams(req.op)
    \/ req.op = "dag/import" /\ Has(req.query, "stats") /\ Get(req.query, "stats") = "false"
    \/ req.op = "pin/rm" /\ ~Has(req.query, "arg")

C9_ValidationFailFast ==
    (req.op # "" /\ FailsValidation) =>
        /\ calls = <<>>
        /\ dbLog = <<>>
        /\ store = prev
        /\ resp.status # StatusOK

C9_Witness ==
    /\ req.op = "dag/import" /\ req.auth.ok
    /\ Get(req.query, "stats") = "false"
    /\ resp.status = StatusBadRequest
    /\ store # {}

(* C10: pin-list result.  The Keys of a pin-list answer are exactly the    *)
(* content ids the caller holds an active record for, each mapped to       *)
(* {"Type": "recursive"}; with none, Keys is the empty object.             *)
C10_PinLsResult ==
    (req.op = "pin/ls" /\ req.auth.ok /\ DOMAIN req.query = {} /\ StoreWorked) =>
        /\ resp.status = StatusOK
        /\ DOMAIN resp.body = {"Keys"}
        /\ DOMAIN resp.body.Keys = {c \in Hashes : HoldsActive(store, Caller, c)}
        /\ \A c \in DOMAIN resp.body.Keys : resp.body.Keys[c] = [Type |-> "recursive"]

C10_Witness ==
    /\ req.op = "pin/ls" /\ resp.status = StatusOK
    /\ DOMAIN resp.body.Keys # {}
    /\ \E r \in store : r.username = Caller /\ r.removed # NULL
    /\ \E r \in store : r.username # Caller /\ r.removed = NULL
                        /\ ~HoldsActive(store, Caller, r.hash)

---------------------------------------------------------------------------
(* C11: per-user view over any history.  In every state, for every         *)
(* identity u, the ids the store lists as active for u are exactly the ids  *)
(* u has uploaded (add or import, upsert committed) and not removed         *)
(* (pin/rm, removal committed) since the latest such upload; a successful   *)
(* pin/ls answers exactly those ids; and a request leaves the listing of    *)
(* every identity other than its caller as it was.                          *)
C11_PerUserView ==
    /\ \A u \in Users : ListActiveContentByUser(store, u) = held[u]
    /\ (req.op = "pin/ls" /\ resp.status = StatusOK) =>
           DOMAIN resp.body.Keys = held[Caller]
    /\ \A u \in Users \ {Caller} :
           ListActiveContentByUser(store, u) = ListActiveContentByUser(prev, u)

(* An identity uploads again an id it had removed, which another identity  *)
(* holds too: the id is back in its listing.                               *)
C11_Witness ==
    /\ req.op \in {"add", "dag/import"}
    /\ \E c \in Uploaded :
         /\ \E r \in RecordsOf(prev, Caller, c.Hash) : r.removed # NULL
         /\ c.Hash \in held[Caller]
         /\ OthersHold(store, Caller, c.Hash)

---------------------------------------------------------------------------
(* The uploads of the latest request that met an existing record of the    *)
(* caller carrying another label or another size.                          *)
Reuploaded ==
    {c \in Uploaded : \E r \in RecordsOf(prev, c.User, c.Hash) :
                          r.name # c.Name \/ r.size # c.Size}

(* C12 as stated: when a record for (identity, contentId) exists and the   *)
(* same identity uploads that id again with a different label or size, the  *)
(* record afterwards carries the new label and size, with removedAt         *)
(* cleared and createdAt preserved.                                         *)
C12_UpsertRefreshes ==
    \A c \in Reuploaded :
        \A r \in RecordsOf(store, c.User, c.Hash) :
            /\ r.name = c.Name /\ r.size = c.Size
            /\ r.removed = NULL
            /\ \A p \in RecordsOf(prev, c.User, c.Hash) : r.created = p.created

(* C12, amended: in that case the record afterwards still carries the      *)
(* label and size it had, with removedAt cleared and createdAt preserved.   *)
C12_UpsertKeepsLabelAndSize ==
    \A c \in Reuploaded :
        /\ RecordsOf(store, c.User, c.Hash) # {}
        /\ \A r \in RecordsOf(store, c.User, c.Hash) :
             /\ r.removed = NULL
             /\ \A p \in RecordsOf(prev, c.User, c.Hash) :
                  r.name = p.name /\ r.size = p.size /\ r.created = p.created

(* An identity uploads, under another label and size, an id it holds. *)
C12_Witness ==
    \E c \in Reuploaded :
        \E p \in RecordsOf(prev, c.User, c.Hash) : p.name # c.Name /\ p.size # c.Size

---------------------------------------------------------------------------
(* C13: no hard delete.  Every record of the table before a request is in  *)
(* the table after it, for the same (identity, contentId), with the same    *)
(* createdAt (and label and size): removedAt, null or not, is all that a    *)
(* request changes of an existing record.  Holding at every request, it     *)
(* holds from any state to every later one.                                 *)
C13_NoHardDelete ==
    \A p \in prev :
        \E r \in store :
            r = [p EXCEPT !.removed = r.removed]

(* A pin/rm has just marked an active record of the caller as removed. *)
C13_Witness ==
    /\ req.op = "pin/rm"
    /\ \E p \in prev, r \in store :
         /\ Key(p) = Key(r) /\ p.username = Caller
         /\ p.removed = NULL /\ r.removed # NULL /\ r.created = p.created

---------------------------------------------------------------------------
(* The decoded results of the latest upload, when the backend answered     *)
(* with success and the whole body decoded; otherwise none.                 *)
Results ==
    IF req.op = "add" /\ calls # <<>> /\ calls[1].answer.code = StatusOK
       /\ \A i \in DOMAIN calls[1].answer.body : ~IsMalformed(calls[1].answer.body[i])
    THEN calls[1].answer.body
    ELSE <<>>

WrapRequested ==
    "wrap-with-directory" \in DOMAIN req.query
    /\ Head(req.query["wrap-with-directory"]) # "false"

(* The record the canonicalization rule asks for. *)
Canonical ==
    LET last == Results[Len(Results)]
    IN Content(Caller, last.Hash,
               IF WrapRequested THEN Results[1].Name \o " (wrapped)" ELSE last.Name,
               ParseInt(last.Size).value)

---------------------------------------------------------------------------
(* The backend's answer to the latest upload. *)
Answer == calls[1].answer

(* C15: the upload handler mutates the store only after the backend        *)
(* answered with the success status and the whole body decoded into at      *)
(* least one result.  On a non-success backend status that status (and      *)
(* body) is what the caller gets and the store is unchanged, untouched      *)
(* even; on a body with a value that does not decode, or with no result at  *)
(* all, the handler returns an error and the store is unchanged; and        *)
(* whenever an upload touched the store, the answer was a success that      *)
(* decoded into at least one result.                                        *)
C15_StoreOnlyAfterDecodedSuccess ==
    req.op = "add" =>
        /\ calls = <<>> => (store = prev /\ dbLog = <<>>)
        /\ (calls # <<>> /\ Answer.code # StatusOK) =>
              /\ resp.status = Answer.code /\ resp.body = Answer.body
              /\ store = prev /\ dbLog = <<>>
        /\ (calls # <<>> /\ Answer.code = StatusOK /\ Results = <<>>) =>
              /\ resp.err # ""
              /\ store = prev /\ dbLog = <<>>
        /\ (store # prev \/ dbLog # <<>>) => Results # <<>>

(* A success whose body holds a result and then a value that does not      *)
(* decode: the handler fails and the result before it is not stored.        *)
C15_Witness ==
    /\ req.op = "add" /\ calls # <<>> /\ Answer.code = StatusOK
    /\ Len(Answer.body) = 2
    /\ ~IsMalformed(Answer.body[1]) /\ IsMalformed(Answer.body[2])
    /\ resp.err # "" /\ store = prev /\ dbLog = <<>>

---------------------------------------------------------------------------
(* The backend answered the latest upload or import with success and the   *)
(* handler then failed to decode the body or to write the store.            *)
InternalFailure ==
    /\ req.op \in {"add", "dag/import"}
    /\ calls # <<>> /\ Answer.code = StatusOK
    /\ (resp.err = "json" \/ \E i \in DOMAIN dbLog : ~dbLog[i].ok)

---------------------------------------------------------------------------
(* The first value of the stats parameter of a query, "" without one. *)
StatsValue(q) == IF "stats" \in DOMAIN q /\ q["stats"] # <<>> THEN q["stats"][1] ELSE ""

(* C17: import statistics are always on.  An import request that passed    *)
(* the checks of credentials and parameter names is forwarded with the      *)
(* query stats=true when it has no stats parameter, forwarded with its own  *)
(* query when it has one whose value is not "false", and answered 400       *)
(* without being forwarded when the value is "false"; every import request  *)
(* that reaches the backend has a stats parameter whose value is not        *)
(* "false".                                                                 *)
C17_StatsAlwaysOn ==
    req.op = "dag/import" =>
        /\ (req.auth.ok /\ DOMAIN req.query = {}) =>
              (Len(calls) = 1 /\ calls[1].query = ("stats" :> <<"true">>))
        /\ (req.auth.ok /\ DOMAIN req.query = {"stats"} /\ StatsValue(req.query) # "false") =>
              (Len(calls) = 1 /\ calls[1].query = req.query)
        /\ (req.auth.ok /\ DOMAIN req.query = {"stats"} /\ StatsValue(req.query) = "false") =>
              (calls = <<>> /\ resp.status = StatusBadRequest /\ store = prev)
        /\ \A i \in DOMAIN calls :
              "stats" \in DOMAIN calls[i].query /\ StatsValue(calls[i].query) # "false"

(* An import without the stats parameter has reached the backend and has   *)
(* been stored.                                                             *)
C17_Witness ==
    /\ req.op = "dag/import" /\ DOMAIN req.query = {}
    /\ Len(calls) = 1 /\ StatsValue(calls[1].query) = "true"
    /\ Uploaded # {} /\ store # prev

---------------------------------------------------------------------------
(* The messages of the backend's answer to the latest import. *)
Messages ==
    IF req.op = "dag/import" /\ calls # <<>> /\ Answer.code = StatusOK
    THEN Answer.body ELSE <<>>

HasRoot(m) == ~IsMalformed(m) /\ m.Root # NULL

HasStats(m) == ~IsMalformed(m) /\ m.Stats # NULL

(* A message the loop passes without an error. *)
Passes(m) ==
    /\ ~IsMalformed(m)
    /\ HasRoot(m) => (m.Root[1].PinErrorMsg = "" /\ "/" \in DOMAIN m.Root[1].Cid)

(* The positions of the stats messages the loop can get to. *)
StatsReached ==
    {k \in DOMAIN Messages :
        HasStats(Messages[k]) /\ \A j \in 1..k : Passes(Messages[j])}

FirstStats == CHOOSE k \in StatsReached : \A j \in StatsReached : k <= j

(* The ids of the roots in the first k messages, in their order. *)
RECURSIVE RootIds(_)
RootIds(k) ==
    IF k = 0 THEN <<>>
    ELSE IF HasRoot(Messages[k]) THEN Append(RootIds(k - 1), Messages[k].Root[1].Cid["/"])
    ELSE RootIds(k - 1)

ImportLabel(cid) == cid \o " (dag import)"

(* C18: import commit rule.  When the loop gets to a first stats message   *)
(* (and the store works), the upserts are, in order, exactly one for each   *)
(* root accumulated up to that message, each for the caller, with the       *)
(* stats message's byte count as size and "<contentId> (dag import)" as     *)
(* label; afterwards the table has exactly one record, active, for each of  *)
(* these ids, with that size and label where the caller had none before,    *)
(* and nothing else of the table has changed.  What follows the first       *)
(* stats message has no part in it.                                         *)
C18_ImportCommitRule ==
    (StatsReached # {} /\ StoreWorked) =>
        LET cids == RootIds(FirstStats)
            size == Messages[FirstStats].Stats[1].BlockBytesCount
        IN
        /\ Len(dbLog) = Len(cids)
        /\ \A i \in DOMAIN cids :
              dbLog[i] = DBCall("Add", Content(Caller, cids[i], ImportLabel(cids[i]), size), TRUE)
        /\ \A c \in Range(cids) :
              \E r \in store :
                 /\ RecordsOf(store, Caller, c) = {r}
                 /\ r.removed = NULL
                 /\ RecordsOf(prev, Caller, c) = {} =>
                       (r.name = ImportLabel(c) /\ r.size = size)
        /\ \A r \in store : (r.username # Caller \/ r.hash \notin Range(cids)) => r \in prev
        /\ \A p \in prev : (p.username # Caller \/ p.hash \notin Range(cids)) => p \in store

(* A root, the stats message, and after it a root of another id, which is *)
(* not stored.                                                              *)
C18_Witness ==
    /\ StatsReached # {} /\ StoreWorked
    /\ Len(Messages) = 3 /\ FirstStats = 2
    /\ HasRoot(Messages[1]) /\ ~HasRoot(Messages[2]) /\ Passes(Messages[3])
    /\ HasRoot(Messages[3]) /\ Messages[3].Root[1].Cid # Messages[1].Root[1].Cid
    /\ Len(dbLog) = 1 /\ prev = {} /\ Cardinality(store) = 1

---------------------------------------------------------------------------
(* The loop gets to message k: every message before it passes and none of  *)
(* them is a stats message.                                                 *)
Reaches(k) ==
    /\ k \in DOMAIN Messages
    /\ \A j \in 1..(k - 1) : Passes(Messages[j]) /\ ~HasStats(Messages[j])

PinError(m) == HasRoot(m) /\ m.Root[1].PinErrorMsg # ""

(* C19: import pin error.  When the loop gets to a root message with a     *)
(* non-empty pin-error string, the handler returns that string as its       *)
(* error, makes no store call and leaves the table as it was, whatever      *)
(* roots the earlier messages of the answer carried.                        *)
C19_ImportPinError ==
    \A k \in DOMAIN Messages :
        (Reaches(k) /\ PinError(Messages[k])) =>
            /\ resp.err = Messages[k].Root[1].PinErrorMsg
            /\ dbLog = <<>>
            /\ store = prev

(* A root has been accumulated, the next root carries a pin error, and a   *)
(* stats message follows.                                                   *)
C19_Witness ==
    /\ Len(Messages) = 3
    /\ HasRoot(Messages[1]) /\ Passes(Messages[1]) /\ ~HasStats(Messages[1])
    /\ PinError(Messages[2])
    /\ HasStats(Messages[3]) /\ ~HasRoot(Messages[3])
    /\ resp.err = "pin error" /\ store = prev

---------------------------------------------------------------------------
NoCidKey(m) == HasRoot(m) /\ "/" \notin DOMAIN m.Root[1].Cid

(* C20: import commits nothing without a valid root and a stats message.   *)
(* When the loop gets to a root message without the "/" key, the handler    *)
(* returns an error, makes no store call and leaves the table as it was;    *)
(* when the answer holds no stats message at all, or the first stats        *)
(* message comes before any root, no store call is made and the table is    *)
(* as it was, whatever roots the answer carried.                            *)
C20_NothingWithoutRootAndStats ==
    req.op = "dag/import" =>
        /\ \A k \in DOMAIN Messages :
              (Reaches(k) /\ NoCidKey(Messages[k])) =>
                  (resp.err # "" /\ dbLog = <<>> /\ store = prev)
        /\ (\A k \in DOMAIN Messages : ~HasStats(Messages[k])) =>
              (dbLog = <<>> /\ store = prev)
        /\ (StatsReached # {} /\ RootIds(FirstStats) = <<>>) =>
              (dbLog = <<>> /\ store = prev)

(* A root has been accumulated, the next root has no "/" key, and a stats  *)
(* message follows.                                                         *)
C20_Witness ==
    /\ Len(Messages) = 3
    /\ HasRoot(Messages[1]) /\ Passes(Messages[1]) /\ ~HasStats(Messages[1])
    /\ NoCidKey(Messages[2]) /\ ~PinError(Messages[2])
    /\ HasStats(Messages[3])
    /\ resp.err = "no root CID in response" /\ store = prev

---------------------------------------------------------------------------
(* A request with credentials that fails the validation of its parameters. *)
InvalidParams ==
    /\ req.op # "" /\ req.auth.ok
    /\ \/ \E param \in DOMAIN req.query : param \notin AllowedParams(req.op)
       \/ req.op = "dag/import" /\ Has(req.query, "stats") /\ Get(req.query, "stats") = "false"
       \/ req.op = "pin/rm" /\ ~Has(req.query, "arg")

(* C21: every validation failure is answered with status 400 on every      *)
(* endpoint: a query parameter outside the endpoint's allowed set on add,   *)
(* dag/import, pin/ls and pin/rm, stats=false on dag/import, and a pin/rm   *)
(* request with no arg value.                                               *)
C21_ValidationIs400 ==
    InvalidParams => resp.status = StatusBadRequest

---------------------------------------------------------------------------
(* C22: pin-remove response.  A pin-remove that passed validation, owns    *)
(* all it names and whose store operations succeeded is answered 200 with   *)
(* the body {"Pins": ids}, ids being the arg values of the request in       *)
(* their order (repetitions included), in each of the three cases: no       *)
(* backend call because every id is shared, backend unreachable, backend    *)
(* answered success; and every 200 answer of a pin-remove has that body,    *)
(* whatever was forwarded.                                                  *)
C22_PinRmResponse ==
    ValidPinRm =>
        /\ (StoreWorked /\ OwnsAllRequested /\
             (calls = <<>> \/ ~calls[1].answer.reached \/ calls[1].answer.code = StatusOK)) =>
               resp.status = StatusOK
        /\ resp.status = StatusOK =>
               (DOMAIN resp.body = {"Pins"} /\ resp.body.Pins = Requested)

(* Two ids requested, one of them shared and so not forwarded; the backend *)
(* answered success and the response names both, in request order.          *)
C22_Witness ==
    /\ ValidPinRm /\ resp.status = StatusOK
    /\ Len(Requested) = 2 /\ Requested[1] # Requested[2]
    /\ OthersHold(prev, Caller, Requested[2])
    /\ Len(calls) = 1 /\ calls[1].answer.reached
    /\ ForwardedIds = {Requested[1]}
    /\ resp.body.Pins = Requested

---------------------------------------------------------------------------
(* C23: pin-list is served from local state.  A pin-list request, whether  *)
(* refused, failed or answered, issues no backend request, leaves every     *)
(* record of the table as it was, and the only store operation it          *)
(* performs is the listing of the caller's active records.                  *)
C23_PinLsLocal ==
    req.op = "pin/ls" =>
        /\ calls = <<>>
        /\ store = prev
        /\ \A i \in DOMAIN dbLog : dbLog[i].op = "ListActiveContentByUser"

(* A pin-list answered from a table that an earlier request has written. *)
C23_Witness ==
    /\ req.op = "pin/ls" /\ resp.status = StatusOK /\ now = 2
    /\ dbLog # <<>> /\ calls = <<>>
    /\ store = prev /\ \E r \in store : r.created = 0

---------------------------------------------------------------------------
(* C24: only the username determines behaviour.  A request without Basic   *)
(* credentials is answered 401 on every endpoint; and whatever a request    *)
(* with credentials did (response, backend calls, store calls, table        *)
(* afterwards), the request that differs from it in the password alone can  *)
(* do the very same from the same state.                                    *)
C24_OnlyUsername ==
    [][\A o \in {[req |-> req', resp |-> resp', calls |-> calls',
                  dbLog |-> dbLog', store |-> store']} :
         /\ ~o.req.auth.ok => o.resp.status = StatusUnauthorized
         /\ o.req.auth.ok =>
              \A pw \in Passwords :
                 ENABLED (/\ ServeHTTP([o.req EXCEPT !.auth.password = pw])
                          /\ resp'.status = o.resp.status /\ resp'.err = o.resp.err
                          /\ resp'.body = o.resp.body
                          /\ dbLog' = o.dbLog /\ store' = o.store
                          /\ calls' = o.calls)]_vars

(* A pin-remove sent with a password other than the tests' has removed.    *)
C24_Witness ==
    /\ req.op = "pin/rm" /\ req.auth.ok /\ req.auth.password = "another"
    /\ resp.status = StatusOK /\ store # prev /\ calls # <<>>

---------------------------------------------------------------------------
(* What an upload shows of the flag: the label handed to the store. *)
LabelIsWrapped == dbLog[1].arg.Name = Results[1].Name \o " (wrapped)"

LabelIsPlain == dbLog[1].arg.Name = Results[Len(Results)].Name

(* C25 as stated: the wrap-with-directory flag of add is true when the     *)
(* parameter is absent or "true", false when it is "false", and true for    *)
(* any other explicit value.                                                *)
C25_WrapFlagDefaultsTrue ==
    (req.op = "add" /\ req.auth.ok) =>
        LET claimed == IF "wrap-with-directory" \notin DOMAIN req.query THEN TRUE
                       ELSE req.query["wrap-with-directory"][1] # "false"
        IN /\ WrapWithDirectory(req) = claimed
           /\ (Results # <<>> /\ dbLog # <<>>) => (LabelIsWrapped <=> claimed)

(* C25, amended: the flag is false when the parameter is absent or its     *)
(* (first) value is "false", and true for any other explicit value, "true"  *)
(* and the empty value included; the label handed to the store is the       *)
(* wrapped one exactly when the flag is true.                               *)
C25_WrapFlag ==
    (req.op = "add" /\ req.auth.ok) =>
        LET flag == IF "wrap-with-directory" \notin DOMAIN req.query THEN FALSE
                    ELSE req.query["wrap-with-directory"][1] # "false"
        IN /\ WrapWithDirectory(req) = flag
           /\ (Results # <<>> /\ dbLog # <<>>) =>
                 /\ LabelIsWrapped <=> flag
                 /\ LabelIsPlain <=> ~flag

(* An upload with the parameter present without a value is stored under    *)
(* the wrapped label.                                                       *)
C25_Witness ==
    /\ req.op = "add" /\ req.auth.ok
    /\ DOMAIN req.query = {"wrap-with-directory"}
    /\ req.query["wrap-with-directory"] = <<"">>
    /\ Results # <<>> /\ dbLog # <<>> /\ StoreWorked
    /\ LabelIsWrapped /\ store # prev

---------------------------------------------------------------------------
(* C26: an add request carrying cid-version=0 or cid-version=1 is          *)
(* forwarded to the backend and, when the backend's answer is a success     *)
(* that decodes, hands to the store the record a request without the        *)
(* parameter would; cid-version with an empty or any other value ends with  *)
(* a non-success response.                                                  *)
C26_CidVersion ==
    (req.op = "add" /\ req.auth.ok /\ DOMAIN req.query = {"cid-version"}) =>
        IF req.query["cid-version"][1] \in {"0", "1"}
        THEN /\ Len(calls) = 1 /\ calls[1].query = req.query
             /\ (Results # <<>> /\ ParseInt(Results[Len(Results)].Size).ok) =>
                   (Len(dbLog) = 1 /\ dbLog[1].op = "Add" /\ dbLog[1].arg = Canonical)
        ELSE resp.status # StatusOK

---------------------------------------------------------------------------
(* An identity holds an active record for the id. *)
Referenced(rows, c) == \E u \in Users : HoldsActive(rows, u, c)

Recorded(rows, c) == \E r \in rows : r.hash = c

(* C29: store/backend agreement in sequential runs.  When requests run one *)
(* at a time and every store and backend operation succeeds with a          *)
(* well-formed response, after each request an id the table has a record    *)
(* for is pinned at the backend if and only if some identity holds an       *)
(* active record for it.                                                    *)
C29_StoreBackendAgreement ==
    \A c \in Hashes : Recorded(store, c) => (c \in pinned <=> Referenced(store, c))

(* A pin/rm of two ids the caller held: the one another identity holds too *)
(* stays pinned, the other one is unpinned.                                 *)
C29_Witness ==
    /\ ValidPinRm /\ resp.status = StatusOK
    /\ \E c \in RequestedIds : c \in pinned /\ OthersHold(store, Caller, c)
    /\ \E c \in RequestedIds : c \notin pinned /\ Recorded(store, c)

(* C27: a backend pin-removal call issued by a pin/rm request never names  *)
(* an id for which an identity other than the caller holds an active        *)
(* record at the moment the call is issued, whatever add, import and        *)
(* pin/rm requests of other identities run alongside.  (The step that       *)
(* issues the call leaves the table alone, so the table of the state is     *)
(* the table at that moment.)                                               *)
C27_NeverForwardsHeldByOthers ==
    (req.op = "pin/rm" /\ calls # <<>>) =>
        \A c \in ForwardedIds : ~OthersHold(store, Caller, c)

(* The ids named by the request goroutine g handles. *)
ArgsOf(g) ==
    IF Has(inflight[g].r.query, "arg") THEN Range(inflight[g].r.query["arg"]) ELSE {}

(* The goroutines have all handled a pin/rm to its end, for distinct        *)
(* identities, each answered with success, and every backend call made was  *)
(* answered with success.                                                   *)
PinRmsSucceeded ==
    /\ \A g \in Goroutines :
         /\ inflight[g].pc = "done"
         /\ inflight[g].r.op = "pin/rm"
         /\ inflight[g].status = StatusOK
         /\ inflight[g].posted # NULL =>
              inflight[g].posted[1].reached /\ inflight[g].posted[1].code = StatusOK
    /\ \A g, h \in Goroutines :
         g # h => BasicAuth(inflight[g].r).user # BasicAuth(inflight[h].r).user

(* The ids named in the backend call of a goroutine's pin/rm. *)
PostedIds(g) == IF inflight[g].posted = NULL THEN {} ELSE inflight[g].backendArgs

(* C28: no orphaned backend pin under concurrency.  Once concurrent pin/rm *)
(* requests of distinct identities that all own an id c have completed      *)
(* with success, the backend having answered with success, if no identity   *)
(* holds an active record for c then c was named in some backend            *)
(* pin-removal call.                                                        *)
C28_NoOrphanedPin ==
    PinRmsSucceeded =>
        \A c \in Hashes :
            (/\ \A g \in Goroutines : c \in ArgsOf(g)
             /\ ~Referenced(store, c))
            => \E g \in Goroutines : c \in PostedIds(g)

(* Goroutine g has handled an add of identity u that stored id c, and      *)
(* goroutine h a pin/rm of the same identity that names c.                  *)
AddAndPinRmOf(g, h, u, c) ==
    /\ g # h
    /\ inflight[g].pc = "done" /\ inflight[h].pc = "done"
    /\ inflight[g].r.op = "add" /\ inflight[h].r.op = "pin/rm"
    /\ BasicAuth(inflight[g].r).user = u /\ BasicAuth(inflight[h].r).user = u
    /\ c \in inflight[g].stored
    /\ c \in ArgsOf(h)

(* The upsert of g committed after the removal of h, or h removed nothing. *)
AddCommittedLast(g, h) ==
    inflight[h].wrote = NULL \/ inflight[h].wrote[1] < inflight[g].wrote[1]

(* C30: concurrent add and pin/rm of the same (identity, contentId) pair.  *)
(* After both requests have completed, in every interleaving, the table     *)
(* holds exactly one record for the pair; it is active when the upsert      *)
(* committed last and removed, at the time of the removal, when the         *)
(* removal committed last; and no step changes the createdAt of a record.   *)
C30_AddPinRmRace ==
    /\ \A r \in prev : \E r2 \in RecordsOf(store, r.username, r.hash) : r2.created = r.created
    /\ \A g, h \in Goroutines, u \in Users, c \in Hashes :
         AddAndPinRmOf(g, h, u, c) =>
            /\ Cardinality(RecordsOf(store, u, c)) = 1
            /\ \A rec \in RecordsOf(store, u, c) :
                 /\ AddCommittedLast(g, h) => rec.removed = NULL
                 /\ ~AddCommittedLast(g, h) => rec.removed = inflight[h].wrote
                 /\ rec.created <= inflight[g].wrote[1]
                 /\ inflight[h].wrote # NULL => rec.created < inflight[h].wrote[1]

(* The removal committed first and the upsert brought the record back. *)
C30_Witness ==
    \E g, h \in Goroutines, u \in Users, c \in Hashes :
       /\ AddAndPinRmOf(g, h, u, c)
       /\ inflight[h].wrote # NULL
       /\ inflight[h].wrote[1] < inflight[g].wrote[1]
       /\ \E rec \in RecordsOf(store, u, c) : rec.removed = NULL /\ rec.created < 0

(* Operation i of the sequence is the named one and succeeded. *)
Did(ops, i, op) == ops[i].op = op /\ ops[i].ok

(* C31: ordering inside pin/rm.  Of the operations a pin/rm request makes, *)
(* the removal of the caller's records comes after a successful listing     *)
(* and a backend pin-removal call comes after a successful removal, which   *)
(* has been committed (at an earlier time of the store's clock, the table   *)
(* being left alone by the step that issues the call); a request whose      *)
(* removal did not succeed issues no backend call.                          *)
C31_PinRmOrdering ==
    /\ \A g \in Goroutines :
         inflight[g].r.op = "pin/rm" =>
            LET ops == inflight[g].ops
            IN
            /\ \A i \in DOMAIN ops :
                 ops[i].op = "RemoveContentByHashForUser" =>
                    \E j \in 1..(i - 1) : Did(ops, j, "ListActiveContentByHash")
            /\ \A i \in DOMAIN ops :
                 ops[i].op = "/api/v0/pin/rm" =>
                    /\ \E j \in 1..(i - 1) : Did(ops, j, "RemoveContentByHashForUser")
                    /\ inflight[g].wrote # NULL /\ inflight[g].wrote[1] < now
            /\ (\E i \in DOMAIN ops : ops[i].op = "RemoveContentByHashForUser" /\ ~ops[i].ok)
                 => inflight[g].posted = NULL
    /\ (req.op = "pin/rm" /\ calls # <<>>) => (dbLog = <<>> /\ store = prev)

(* A pin/rm has listed, removed and called the backend, while another      *)
(* request's removal failed and it called nothing.                          *)
C31_Witness ==
    \E g, h \in Goroutines :
       /\ inflight[g].posted # NULL /\ Len(inflight[g].ops) = 3
       /\ inflight[h].r.op = "pin/rm" /\ inflight[h].pc = "done"
       /\ Len(inflight[h].ops) = 2 /\ ~inflight[h].ops[2].ok

(* The roots the latest import is to store: those up to the first stats    *)
(* message the loop gets to, none when it gets to no stats message.         *)
RootsToStore == IF StatsReached = {} THEN <<>> ELSE RootIds(FirstStats)

(* C32 as stated: either a record has been upserted for every root that    *)
(* preceded the stats message, or no record of the request has been         *)
(* upserted at all.                                                         *)
C32_NoPartialCommit ==
    req.op = "dag/import" =>
        \/ Uploaded = {}
        \/ \A c \in Range(RootsToStore) : \E u \in Uploaded : u.Hash = c

(* C32, amended: an import that does not get to a stats message (a value   *)
(* that does not decode, a pin error, a root without id, no stats) upserts  *)
(* nothing; one that does upserts the roots in their order and stops at     *)
(* the first upsert that fails, so that what has been upserted is a prefix  *)
(* of the roots, all of them when no upsert fails, and the failure is the   *)
(* error of the handler.                                                    *)
C32_PrefixCommit ==
    req.op = "dag/import" =>
        /\ Len(dbLog) <= Len(RootsToStore)
        /\ \A i \in DOMAIN dbLog :
             /\ dbLog[i].op = "Add" /\ dbLog[i].arg.Hash = RootsToStore[i]
             /\ i < Len(dbLog) => dbLog[i].ok
        /\ StoreWorked => Len(dbLog) = Len(RootsToStore)
        /\ ~StoreWorked => resp.err = "db"
        /\ \A c \in Hashes :
             (\E u \in Uploaded : u.Hash = c) => HoldsActive(store, Caller, c)
        /\ \A r \in store :
             (r.username # Caller \/ ~\E u \in Uploaded : u.Hash = r.hash) => r \in prev
        /\ RootsToStore = <<>> => store = prev

(* Two roots of different ids and the stats: the first upsert commits a    *)
(* record the caller did not have, the second fails.                        *)
C32_Witness ==
    /\ req.op = "dag/import" /\ Len(RootsToStore) = 2 /\ RootsToStore[1] # RootsToStore[2]
    /\ Len(dbLog) = 2 /\ dbLog[1].ok /\ ~dbLog[2].ok
    /\ RecordsOf(prev, Caller, RootsToStore[1]) = {}
    /\ HoldsActive(store, Caller, RootsToStore[1])
    /\ ~HoldsActive(store, Caller, RootsToStore[2])

(* The latest store call was a removal that succeeded. *)
Deactivated ==
    /\ Len(dbLog) = 1 /\ dbLog[1].op = "RemoveContentByHashForUser" /\ dbLog[1].ok

(* C33: deactivate is a no-op outside the caller's active records.  A      *)
(* removal for an identity and ids marks, with the time of the call, the    *)
(* identity's active records among the ids and leaves every other record    *)
(* as it was: a record already removed keeps its removedAt, a record of     *)
(* another identity or for another id is untouched, no record appears or    *)
(* disappears; and the same removal applied again changes nothing.          *)
C33_DeactivateNoOp ==
    Deactivated =>
        LET user == dbLog[1].arg[1]
            hashes == dbLog[1].arg[2]
            mine(p) == p.username = user /\ p.hash \in Range(hashes) /\ p.removed = NULL
        IN
        /\ \A p \in prev :
             IF mine(p) THEN [p EXCEPT !.removed = <<now - 1>>] \in store ELSE p \in store
        /\ Cardinality(store) = Cardinality(prev)
        /\ RemoveContentByHashForUser(store, user, hashes, now) = store

(* A removal naming an id the identity had already removed and an id only  *)
(* another identity holds succeeds and leaves the table as it was.          *)
C33_Witness ==
    /\ Deactivated /\ store = prev
    /\ \E c \in Range(dbLog[1].arg[2]) :
          \E r \in RecordsOf(store, dbLog[1].arg[1], c) :
             r.removed # NULL /\ r.removed[1] < now - 1
    /\ \E c \in Range(dbLog[1].arg[2]) :
          RecordsOf(store, dbLog[1].arg[1], c) = {} /\ OthersHold(store, dbLog[1].arg[1], c)

(* The status of the last WriteHeader among the calls, StatusOK for none. *)
RECURSIVE LastStatus(_)
LastStatus(cs) ==
    IF cs = <<>> THEN StatusOK
    ELSE IF cs[Len(cs)].method = "WriteHeader" THEN cs[Len(cs)].statusCode
    ELSE LastStatus(SubSeq(cs, 1, Len(cs) - 1))

(* The chunks of the Write calls, one after the other. *)
RECURSIVE Written(_)
Written(cs) ==
    IF cs = <<>> THEN <<>>
    ELSE IF Head(cs).method = "Write" THEN Head(cs).b \o Written(Tail(cs))
    ELSE Written(Tail(cs))

(* C34: response capture wrapper.  After any sequence of WriteHeader and   *)
(* Write calls the wrapped writer has been handed every status code and     *)
(* every chunk, unchanged and in the order of the calls; the recorded       *)
(* status is the last one set, 200 when none was; and the recorded body is  *)
(* the chunks written, concatenated in order.                               *)
C34_ResponseCapture ==
    /\ rww.ResponseWriter = rww.calls
    /\ rww.StatusCode = LastStatus(rww.calls)
    /\ rww.Body = Written(rww.calls)

(* Two different chunks written around a status that is not 200. *)
C34_Witness ==
    /\ Len(rww.calls) = 3
    /\ rww.calls[1].method = "Write" /\ rww.calls[3].method = "Write"
    /\ rww.calls[1].b # <<>> /\ rww.calls[3].b # <<>> /\ rww.calls[1].b # rww.calls[3].b
    /\ rww.calls[2].method = "WriteHeader" /\ rww.calls[2].statusCode # StatusOK

(* A store operation of the request handled by goroutine g failed. *)
StoreFailed(g, op) ==
    \E i \in DOMAIN inflight[g].ops : inflight[g].ops[i].op = op /\ ~inflight[g].ops[i].ok

(* C35: store failure in pin/rm.  A pin/rm whose listing of the active     *)
(* records fails ends with 500, having written no record and called no      *)
(* backend; one whose removal fails ends with 500, having called no         *)
(* backend (and the failed statement leaves the table as it was).           *)
C35_PinRmStoreFailure ==
    /\ \A g \in Goroutines :
         (/\ inflight[g].r.op = "pin/rm"
          /\ \/ StoreFailed(g, "ListActiveContentByHash")
             \/ StoreFailed(g, "RemoveContentByHashForUser")) =>
            /\ inflight[g].pc = "done"
            /\ inflight[g].status = StatusInternalServerError
            /\ inflight[g].posted = NULL
            /\ inflight[g].wrote = NULL
            /\ \A i \in DOMAIN inflight[g].ops : inflight[g].ops[i].op # "/api/v0/pin/rm"
    /\ (req.op = "pin/rm" /\ dbLog # <<>> /\ ~dbLog[1].ok) =>
         /\ resp.status = StatusInternalServerError
         /\ calls = <<>>
         /\ store = prev

(* One pin/rm has failed at its listing and another one, which had ids to  *)
(* forward, at its removal.                                                 *)
C35_Witness ==
    \E g, h \in Goroutines :
       /\ inflight[g].r.op = "pin/rm" /\ StoreFailed(g, "ListActiveContentByHash")
       /\ inflight[h].r.op = "pin/rm" /\ StoreFailed(h, "RemoveContentByHashForUser")
       /\ inflight[h].backendArgs # {}

(* The latest request was a pin/rm whose backend call failed: the backend  *)
(* could not be reached or answered with a non-success status.              *)
BackendCallFailed ==
    /\ req.op = "pin/rm" /\ Len(calls) = 1
    /\ ~calls[1].answer.reached \/ calls[1].answer.code # StatusOK

(* C36: retry after a failed backend call.  When the request that follows  *)
(* such a pin/rm is the same request again (same caller, same ids) and its  *)
(* listing works, it is answered with 404, changes no record and calls no   *)
(* backend: the ids that were to be forwarded are not forwarded by it.      *)
C36_RetryAfterBackendFailure ==
    [][(BackendCallFailed /\ req' = req /\ StoreWorked') =>
          /\ resp'.status = StatusNotFound
          /\ store' = store
          /\ calls' = <<>>]_vars

(* The second request is a pin/rm, answered with 404, of an id whose       *)
(* record the caller's first request removed, which no identity holds and   *)
(* which is still pinned at the backend.                                    *)
C36_Witness ==
    /\ ValidPinRm /\ now = 2 /\ resp.status = StatusNotFound /\ store = prev
    /\ \E c \in RequestedIds :
          /\ \E r \in RecordsOf(store, Caller, c) : r.removed = <<0>>
          /\ ~Referenced(store, c)
          /\ c \in pinned

(* C37: every handler invocation terminates.  Whatever the request, the    *)
(* store (success or failure) and the backend (success, a non-success       *)
(* status, unreachable) do, as long as each store operation and backend     *)
(* round trip returns, a handler that has started reaches its end; a        *)
(* status is never written to the caller twice, and at the end it has been  *)
(* written exactly once.                                                    *)
C37_Terminates ==
    /\ \A g \in Goroutines : (inflight[g].pc # "idle") ~> (inflight[g].pc = "done")
    /\ [](\A g \in Goroutines :
            /\ inflight[g].sent <= 1
            /\ inflight[g].pc = "done" => (inflight[g].sent = 1 /\ inflight[g].status # 0))

(* An upload whose upsert failed after the backend's answer was relayed,   *)
(* and a pin/rm whose backend could not be reached, both at their end.      *)
C37_Witness ==
    \E g, h \in Goroutines :
       /\ inflight[g].pc = "done" /\ inflight[g].r.op = "add" /\ StoreFailed(g, "Add")
       /\ inflight[h].pc = "done" /\ inflight[h].r.op = "pin/rm"
       /\ inflight[h].posted # NULL /\ ~inflight[h].posted[1].reached

====
